---- MODULE Spec2Model ----
(***************************************************************************)
(* The gosales_dw credit-metrics warehouse: the star schema and its        *)
(* constraints, the Loader's writes, the rollup refresh procedures         *)
(* (RefreshOLAPAggregations, RefreshAllAggregations,                       *)
(* OptimizeDataWarehouse) as run by the MySQL server, and the dim_product  *)
(* self-heal block.                                                        *)
(*                                                                         *)
(* SQL NULL is the empty tuple and a non-NULL value v is <<v>>.  Amounts   *)
(* (DECIMAL(18,2)) are counted in hundredths, rates (DECIMAL(9,4)) in      *)
(* ten-thousandths.                                                        *)
(***************************************************************************)
EXTENDS Integers, Sequences, FiniteSets, TLC

VARIABLES
    dim_date_qtr,                   \* rows of dim_date_qtr
    dim_geo,                        \* rows of dim_geo
    dim_product,                    \* rows of dim_product
    fact_credit_metrics_qtr,        \* rows of fact_credit_metrics_qtr
    agg_credit_metrics_yearly,      \* rows of agg_credit_metrics_yearly
    agg_credit_metrics_quarterly,   \* rows of agg_credit_metrics_quarterly
    auto_increment,                 \* next AUTO_INCREMENT value of dim_geo, dim_product
    sqlstate,                       \* outcome of the Loader session's last statement
    pc,                             \* statement each maintenance session is at
    err,                            \* whether the session's call raised to its caller
    txn,                            \* undo log of the session's open transaction, <<>> if none
    hist,                           \* history: tables at invocation and at the previous return
    dp_columns,                     \* INFORMATION_SCHEMA.COLUMNS of dim_product
    dp_indexes,                     \* indexes of dim_product in information_schema.statistics: name -> columns
    heal,                           \* the self-heal script: position, run number, ALTERs issued
    resultset                       \* what each reader's last query returned, <<>> if none

whVars   == <<dim_date_qtr, dim_geo, dim_product, fact_credit_metrics_qtr,
              agg_credit_metrics_yearly, agg_credit_metrics_quarterly,
              auto_increment, sqlstate>>
procVars == <<pc, err, txn, hist>>
healVars == <<dp_columns, dp_indexes, heal>>
vars     == <<dim_date_qtr, dim_geo, dim_product, fact_credit_metrics_qtr,
              agg_credit_metrics_yearly, agg_credit_metrics_quarterly,
              auto_increment, sqlstate, pc, err, txn, hist,
              dp_columns, dp_indexes, heal, resultset>>

----------------------------------------------------------------------------
(* Bounds *)

MaxGeoKey     == 2      \* dim_geo surrogate keys handed out
MaxProductKey == 1      \* dim_product surrogate keys handed out
MaxFactRows   == 2      \* rows the fact table holds
MaxRuns       == 2      \* consecutive runs of the self-heal block
MaxLegacyRows == 2      \* rows a legacy dim_product holds
MaxRate       == 1001   \* largest default_rate, in ten-thousandths, a reader is given
MaxPartitionRows == 5   \* rows of one (geo_key, product_key) partition a reader is given

----------------------------------------------------------------------------
(* SQL values *)

NULL == <<>>

V(x) == <<x>>

IsNull(x) == x = NULL

Val(x) == x[1]

Abs(i) == IF i < 0 THEN -i ELSE i

\* a / n rounded to the nearest integer, halves away from zero: what storing
\* a quotient into a DECIMAL column of fewer fractional digits does
RoundDiv(a, n) ==
    IF a >= 0 THEN (2 * a + n) \div (2 * n)
              ELSE -((2 * (-a) + n) \div (2 * n))

RECURSIVE SumOver(_, _)
SumOver(S, col) ==
    IF S = {} THEN 0
    ELSE LET r == CHOOSE x \in S : TRUE
         IN  (IF IsNull(r[col]) THEN 0 ELSE Val(r[col])) + SumOver(S \ {r}, col)

NonNull(S, col) == {r \in S : ~IsNull(r[col])}

\* SUM(col): NULL over no non-NULL value
SQL_SUM(S, col) ==
    IF NonNull(S, col) = {} THEN NULL ELSE V(SumOver(S, col))

AvgOverAllRows(S, col) ==
    IF NonNull(S, col) = {} THEN NULL
    ELSE V(RoundDiv(SumOver(S, col), Cardinality(S)))

\* AVG(col) stored into a DECIMAL(9,4) column
SQL_AVG(S, col) ==
    IF NonNull(S, col) = {} THEN NULL
    ELSE V(RoundDiv(SumOver(S, col), Cardinality(NonNull(S, col))))

SQL_MIN(S, col) ==
    IF NonNull(S, col) = {} THEN NULL
    ELSE V(CHOOSE m \in {Val(r[col]) : r \in NonNull(S, col)} :
               \A r \in NonNull(S, col) : m <= Val(r[col]))

SQL_MAX(S, col) ==
    IF NonNull(S, col) = {} THEN NULL
    ELSE V(CHOOSE m \in {Val(r[col]) : r \in NonNull(S, col)} :
               \A r \in NonNull(S, col) : m >= Val(r[col]))

RECURSIVE SumSqOver(_, _)
SumSqOver(S, col) ==
    IF S = {} THEN 0
    ELSE LET r == CHOOSE x \in S : TRUE
         IN  (IF IsNull(r[col]) THEN 0 ELSE Val(r[col]) * Val(r[col]))
             + SumSqOver(S \ {r}, col)

\* STDDEV(col), the population standard deviation sqrt(n*Sum(x^2) - Sum(x)^2) / n,
\* stored into a DECIMAL(9,4) column
SQL_STDDEV(S, col) ==
    IF NonNull(S, col) = {} THEN NULL
    ELSE LET n  == Cardinality(NonNull(S, col))
             sm == SumOver(S, col)
             v  == n * SumSqOver(S, col) - sm * sm
             hi == SQL_MAX(S, col)[1] - SQL_MIN(S, col)[1]
         IN  V(CHOOSE s \in 0..hi :
                   /\ (s = 0 \/ (2 * s - 1) * (2 * s - 1) * n * n <= 4 * v)
                   /\ 4 * v < (2 * s + 1) * (2 * s + 1) * n * n)

----------------------------------------------------------------------------
(* The data the Loader can bring *)

QuarterKeys == {20243, 20244}

GeoNaturalKeys ==
    { <<V("US"), NULL, NULL>>, <<V("US"), V("CA"), V("LA")>>, <<NULL, NULL, NULL>> }

ProductNaturalKeys ==
    { <<V("CC"), V("CreditCard"), V("Retail")>> }

Measures ==
    { [originations_cnt |-> V(100), origination_amt |-> V(50000000), balance_amt |-> NULL,
       default_rate |-> V(300), prime_rate |-> NULL, lending_rate |-> NULL],
      [originations_cnt |-> V(7), origination_amt |-> V(12345), balance_amt |-> V(500),
       default_rate |-> V(1), prime_rate |-> V(850), lending_rate |-> V(325)] }

\* the measures a source file can carry into the Loader: the columns are
\* signed DECIMALs without a CHECK, so a row outside the ranges is stored as
\* it comes
SourceMeasures ==
    { [originations_cnt |-> V(7), origination_amt |-> V(12345), balance_amt |-> V(500),
       default_rate |-> V(1), prime_rate |-> V(850), lending_rate |-> V(325)],
      [originations_cnt |-> V(3), origination_amt |-> V(-100), balance_amt |-> NULL,
       default_rate |-> V(10001), prime_rate |-> V(850), lending_rate |-> V(-1)] }

----------------------------------------------------------------------------
(* Schema: rows and constraints *)

\* a DATE as its day number (days since 1970-01-01), so that DATEDIFF is a
\* difference and MAX the latest day
DaysFromCivil(y, m, d) ==
    LET yy  == IF m <= 2 THEN y - 1 ELSE y
        era == yy \div 400
        yoe == yy - era * 400
        mp  == (m + 9) % 12
        doy == (153 * mp + 2) \div 5 + d - 1
        doe == yoe * 365 + yoe \div 4 - yoe \div 100 + doy
    IN  era * 146097 + doe - 719468

DATEDIFF(d1, d2) == IF IsNull(d1) \/ IsNull(d2) THEN NULL ELSE V(Val(d1) - Val(d2))

\* first day of quarter q of year y
QuarterStart(y, q) == DaysFromCivil(y, 3 * (q - 1) + 1, 1)

QuarterEnd(y, q) == (IF q = 4 THEN QuarterStart(y + 1, 1) ELSE QuarterStart(y, q + 1)) - 1

DateRow(qk) ==
    [quarter_key |-> qk, year |-> qk \div 10, quarter |-> qk % 10,
     quarter_start |-> V(QuarterStart(qk \div 10, qk % 10)),
     quarter_end |-> V(QuarterEnd(qk \div 10, qk % 10))]

GeoRow(k, nk) ==
    [geo_key |-> k, country |-> nk[1], state_province |-> nk[2], city |-> nk[3]]

ProductRow(k, nk) ==
    [product_key |-> k, product_code |-> nk[1], product_type |-> nk[2], segment |-> nk[3]]

FactRow(qk, gk, pk, m) ==
    [quarter_key |-> qk, geo_key |-> gk, product_key |-> pk,
     originations_cnt |-> m.originations_cnt, origination_amt |-> m.origination_amt,
     balance_amt |-> m.balance_amt, default_rate |-> m.default_rate,
     prime_rate |-> m.prime_rate, lending_rate |-> m.lending_rate]

FactKey(r) == <<r.quarter_key, r.geo_key, r.product_key>>

WholeRowDuplicate(rows, r) == r \in rows

\* PRIMARY KEY (quarter_key, geo_key, product_key): r collides with a stored row
FactPrimaryKeyDuplicate(rows, r) ==
    \E x \in rows : FactKey(x) = FactKey(r)

ForeignKeysWithoutProduct(r, dates, geos, products) ==
    \/ ~\E d \in dates : d.quarter_key = r.quarter_key
    \/ ~\E g \in geos : g.geo_key = r.geo_key

\* fk_dd, fk_geo, fk_prd: r references a missing parent row
FactForeignKeyViolation(r, dates, geos, products) ==
    \/ ~\E d \in dates : d.quarter_key = r.quarter_key
    \/ ~\E g \in geos : g.geo_key = r.geo_key
    \/ ~\E p \in products : p.product_key = r.product_key

\* fk_dd, fk_geo, fk_prd restrict the removal of a referenced parent row
ParentRowReferenced(col, k, facts) ==
    \E f \in facts : f[col] = k

\* UNIQUE KEY uq_geo (country, state_province, city); NULLs never collide
UqGeoDuplicate(rows, nk) ==
    /\ \A i \in 1..3 : ~IsNull(nk[i])
    /\ \E x \in rows : <<x.country, x.state_province, x.city>> = nk

\* UNIQUE KEY uq_prod (product_code, product_type, segment); NULLs never collide
UqProdDuplicate(rows, nk) ==
    /\ \A i \in 1..3 : ~IsNull(nk[i])
    /\ \E x \in rows : <<x.product_code, x.product_type, x.segment>> = nk

----------------------------------------------------------------------------
(* The Loader: dimension rows first, then facts keyed on the grain.  Each  *)
(* statement leaves its outcome to the session that observes it.           *)

Stmt(op, code) == [op |-> op, code |-> code]

LoaderUpsertDate(qk) ==
    /\ dim_date_qtr' = dim_date_qtr \cup {DateRow(qk)}
    /\ UNCHANGED <<dim_geo, dim_product, fact_credit_metrics_qtr, auto_increment>>

LoaderUpsertGeo(nk) ==
    /\ IF UqGeoDuplicate(dim_geo, nk)
       THEN UNCHANGED <<dim_geo, auto_increment>>
       ELSE /\ auto_increment.geo <= MaxGeoKey
            /\ dim_geo' = dim_geo \cup {GeoRow(auto_increment.geo, nk)}
            /\ auto_increment' = [auto_increment EXCEPT !.geo = @ + 1]
    /\ UNCHANGED <<dim_date_qtr, dim_product, fact_credit_metrics_qtr>>

LoaderUpsertProduct(nk) ==
    /\ IF UqProdDuplicate(dim_product, nk)
       THEN UNCHANGED <<dim_product, auto_increment>>
       ELSE /\ auto_increment.product <= MaxProductKey
            /\ dim_product' = dim_product \cup {ProductRow(auto_increment.product, nk)}
            /\ auto_increment' = [auto_increment EXCEPT !.product = @ + 1]
    /\ UNCHANGED <<dim_date_qtr, dim_geo, fact_credit_metrics_qtr>>

\* what INSERT ... ON DUPLICATE KEY UPDATE of r reports
UpsertFactOutcome(r) ==
    IF FactForeignKeyViolation(r, dim_date_qtr, dim_geo, dim_product) THEN "fk_violation"
    ELSE IF FactPrimaryKeyDuplicate(fact_credit_metrics_qtr, r)
         THEN (IF r \in fact_credit_metrics_qtr THEN "unchanged" ELSE "updated")
         ELSE "inserted"

\* INSERT ... ON DUPLICATE KEY UPDATE of one fact row
LoaderUpsertFact(qk, gk, pk, m) ==
    LET r == FactRow(qk, gk, pk, m) IN
    /\ IF FactForeignKeyViolation(r, dim_date_qtr, dim_geo, dim_product)
       THEN UNCHANGED fact_credit_metrics_qtr
       ELSE IF FactPrimaryKeyDuplicate(fact_credit_metrics_qtr, r)
       THEN fact_credit_metrics_qtr' =
                {IF FactKey(x) = FactKey(r) THEN r ELSE x : x \in fact_credit_metrics_qtr}
       ELSE /\ Cardinality(fact_credit_metrics_qtr) < MaxFactRows
            /\ fact_credit_metrics_qtr' = fact_credit_metrics_qtr \cup {r}
    /\ UNCHANGED <<dim_date_qtr, dim_geo, dim_product, auto_increment>>

\* etl_mco.py --recreate: the first load also clears the fact table
LoaderClearFacts ==
    /\ fact_credit_metrics_qtr # {}
    /\ fact_credit_metrics_qtr' = {}
    /\ UNCHANGED <<dim_date_qtr, dim_geo, dim_product, auto_increment>>

DeleteOutcome(col, k) ==
    IF ParentRowReferenced(col, k, fact_credit_metrics_qtr) THEN "fk_restrict" ELSE "ok"

\* DELETE of one parent row, which the fact table's foreign keys restrict
DeleteDate(qk) ==
    /\ \E d \in dim_date_qtr : d.quarter_key = qk
    /\ IF ParentRowReferenced("quarter_key", qk, fact_credit_metrics_qtr)
       THEN UNCHANGED dim_date_qtr
       ELSE dim_date_qtr' = {d \in dim_date_qtr : d.quarter_key # qk}
    /\ UNCHANGED <<dim_geo, dim_product, fact_credit_metrics_qtr, auto_increment>>

DeleteGeo(k) ==
    /\ \E g \in dim_geo : g.geo_key = k
    /\ IF ParentRowReferenced("geo_key", k, fact_credit_metrics_qtr)
       THEN UNCHANGED dim_geo
       ELSE dim_geo' = {g \in dim_geo : g.geo_key # k}
    /\ UNCHANGED <<dim_date_qtr, dim_product, fact_credit_metrics_qtr, auto_increment>>

DeleteProduct(k) ==
    /\ \E p \in dim_product : p.product_key = k
    /\ IF ParentRowReferenced("product_key", k, fact_credit_metrics_qtr)
       THEN UNCHANGED dim_product
       ELSE dim_product' = {p \in dim_product : p.product_key # k}
    /\ UNCHANGED <<dim_date_qtr, dim_geo, fact_credit_metrics_qtr, auto_increment>>

----------------
(* The rollup SELECTs *)

JoinWithoutOn(facts, dates, geos, products) == facts \X dates \X geos \X products

\* fact JOIN dim_date_qtr JOIN dim_geo JOIN dim_product
FactJoin(facts, dates, geos, products) ==
    { j \in facts \X dates \X geos \X products :
        /\ j[1].quarter_key = j[2].quarter_key
        /\ j[1].geo_key = j[3].geo_key
        /\ j[1].product_key = j[4].product_key }

YearlyGroupKey(j) == <<j[2].year, j[3].country, j[4].product_type>>

QuarterlyGroupKey(j) ==
    <<j[2].year, j[2].quarter, j[2].quarter_key, j[3].country, j[4].product_type>>

YearlyRow(k, F) ==
    [year |-> k[1], country |-> k[2], product_type |-> k[3],
     total_originations_cnt |-> SQL_SUM(F, "originations_cnt"),
     total_origination_amt  |-> SQL_SUM(F, "origination_amt"),
     total_balance_amt      |-> SQL_SUM(F, "balance_amt"),
     avg_default_rate       |-> SQL_AVG(F, "default_rate"),
     avg_prime_rate         |-> SQL_AVG(F, "prime_rate"),
     avg_lending_rate       |-> SQL_AVG(F, "lending_rate")]

QuarterlyRow(k, F) ==
    [year |-> k[1], quarter |-> k[2], quarter_key |-> k[3],
     country |-> k[4], product_type |-> k[5],
     total_originations_cnt |-> SQL_SUM(F, "originations_cnt"),
     total_origination_amt  |-> SQL_SUM(F, "origination_amt"),
     total_balance_amt      |-> SQL_SUM(F, "balance_amt"),
     avg_default_rate       |-> SQL_AVG(F, "default_rate"),
     avg_prime_rate         |-> SQL_AVG(F, "prime_rate"),
     avg_lending_rate       |-> SQL_AVG(F, "lending_rate"),
     min_default_rate       |-> SQL_MIN(F, "default_rate"),
     max_default_rate       |-> SQL_MAX(F, "default_rate"),
     stddev_default_rate    |-> SQL_STDDEV(F, "default_rate")]

\* the SELECT ... GROUP BY d.year, g.country, p.product_type
YearlySelect(facts, dates, geos, products) ==
    LET J == FactJoin(facts, dates, geos, products) IN
    { YearlyRow(k, {j[1] : j \in {x \in J : YearlyGroupKey(x) = k}}) :
        k \in {YearlyGroupKey(j) : j \in J} }

\* the SELECT ... GROUP BY d.year, d.quarter, d.quarter_key, g.country, p.product_type
QuarterlySelect(facts, dates, geos, products) ==
    LET J == FactJoin(facts, dates, geos, products) IN
    { QuarterlyRow(k, {j[1] : j \in {x \in J : QuarterlyGroupKey(x) = k}}) :
        k \in {QuarterlyGroupKey(j) : j \in J} }

\* PRIMARY KEY (year, country, product_type)
YearlyKey(r) == <<r.year, r.country, r.product_type>>

\* PRIMARY KEY (quarter_key, country, product_type)
QuarterlyKey(r) == <<r.quarter_key, r.country, r.product_type>>

\* INSERT ... SELECT raises when a row has NULL in a primary-key column or
\* collides with a stored row (strict SQL mode, the server's default)
YearlyInsertFails(tbl, rows) ==
    \/ \E r \in rows : IsNull(r.country) \/ IsNull(r.product_type)
    \/ \E r \in rows, x \in tbl : YearlyKey(r) = YearlyKey(x)

QuarterlyInsertFails(tbl, rows) ==
    \/ \E r \in rows : IsNull(r.country) \/ IsNull(r.product_type)
    \/ \E r \in rows, x \in tbl : QuarterlyKey(r) = QuarterlyKey(x)

\* agg_credit_metrics_monthly is created empty by CREATE TABLE IF NOT EXISTS
\* and no procedure, event or script of the repository writes it
agg_credit_metrics_monthly == {}

TruncateKeepsRows(tbl) == tbl

\* TRUNCATE TABLE
TruncateTable(tbl) == {}

----------------------------------------------------------------------------
(* The maintenance sessions: the daily_optimization event calls            *)
(* OptimizeDataWarehouse, the weekly_aggregation_refresh event calls       *)
(* RefreshAllAggregations                                                  *)

Sessions == {"daily", "weekly"}

Tables ==
    [date |-> dim_date_qtr, geo |-> dim_geo, product |-> dim_product,
     fact |-> fact_credit_metrics_qtr,
     yearly |-> agg_credit_metrics_yearly, quarterly |-> agg_credit_metrics_quarterly]

Rollups == [yearly |-> agg_credit_metrics_yearly, quarterly |-> agg_credit_metrics_quarterly]

dimAndFact == <<dim_date_qtr, dim_geo, dim_product, fact_credit_metrics_qtr,
                auto_increment, sqlstate>>

\* the other session is not inside its call
Alone(s) == \A o \in Sessions \ {s} : pc[o] = "idle"

\* the event fires and calls its procedure
Invoke(s) ==
    /\ pc[s] = "idle"
    /\ pc' = [pc EXCEPT ![s] = IF s = "daily" THEN "analyze" ELSE "start_transaction"]
    /\ err' = [err EXCEPT ![s] = FALSE]
    /\ hist' = [hist EXCEPT !.pre[s] = V(Tables)]
    /\ UNCHANGED <<dimAndFact, agg_credit_metrics_yearly, agg_credit_metrics_quarterly, txn>>

\* ANALYZE TABLE on the fact and the three dimensions
AnalyzeTables(s) ==
    /\ pc[s] = "analyze"
    /\ pc' = [pc EXCEPT ![s] = "optimize"]
    /\ UNCHANGED <<dimAndFact, agg_credit_metrics_yearly, agg_credit_metrics_quarterly,
                   err, txn, hist>>

\* OPTIMIZE TABLE on the fact and the three dimensions, then CALL RefreshAllAggregations
OptimizeTables(s) ==
    /\ pc[s] = "optimize"
    /\ pc' = [pc EXCEPT ![s] = "start_transaction"]
    /\ UNCHANGED <<dimAndFact, agg_credit_metrics_yearly, agg_credit_metrics_quarterly,
                   err, txn, hist>>

StartTransaction(s) ==
    /\ pc[s] = "start_transaction"
    /\ txn' = [txn EXCEPT ![s] = V(Rollups)]
    /\ pc' = [pc EXCEPT ![s] = "truncate_yearly"]
    /\ UNCHANGED <<dimAndFact, agg_credit_metrics_yearly, agg_credit_metrics_quarterly,
                   err, hist>>

\* TRUNCATE TABLE is DDL: it commits the open transaction and cannot be undone
TruncateYearly(s) ==
    /\ pc[s] = "truncate_yearly"
    /\ txn' = [txn EXCEPT ![s] = NULL]
    /\ agg_credit_metrics_yearly' = TruncateTable(agg_credit_metrics_yearly)
    /\ pc' = [pc EXCEPT ![s] = "insert_yearly"]
    /\ UNCHANGED <<dimAndFact, agg_credit_metrics_quarterly, err, hist>>

\* EXIT HANDLER FOR SQLEXCEPTION: ROLLBACK; RESIGNAL
Handler(s) ==
    /\ agg_credit_metrics_yearly' =
           IF txn[s] = NULL THEN agg_credit_metrics_yearly ELSE Val(txn[s]).yearly
    /\ agg_credit_metrics_quarterly' =
           IF txn[s] = NULL THEN agg_credit_metrics_quarterly ELSE Val(txn[s]).quarterly
    /\ txn' = [txn EXCEPT ![s] = NULL]
    /\ err' = [err EXCEPT ![s] = TRUE]
    /\ pc' = [pc EXCEPT ![s] = "failed"]

InsertYearly(s) ==
    LET rows == YearlySelect(fact_credit_metrics_qtr, dim_date_qtr, dim_geo, dim_product) IN
    /\ pc[s] = "insert_yearly"
    /\ IF YearlyInsertFails(agg_credit_metrics_yearly, rows)
       THEN Handler(s)
       ELSE /\ agg_credit_metrics_yearly' = agg_credit_metrics_yearly \cup rows
            /\ pc' = [pc EXCEPT ![s] = "truncate_quarterly"]
            /\ UNCHANGED <<agg_credit_metrics_quarterly, txn, err>>
    /\ UNCHANGED <<dimAndFact, hist>>

TruncateQuarterly(s) ==
    /\ pc[s] = "truncate_quarterly"
    /\ txn' = [txn EXCEPT ![s] = NULL]
    /\ agg_credit_metrics_quarterly' = TruncateTable(agg_credit_metrics_quarterly)
    /\ pc' = [pc EXCEPT ![s] = "insert_quarterly"]
    /\ UNCHANGED <<dimAndFact, agg_credit_metrics_yearly, err, hist>>

InsertQuarterly(s) ==
    LET rows == QuarterlySelect(fact_credit_metrics_qtr, dim_date_qtr, dim_geo, dim_product) IN
    /\ pc[s] = "insert_quarterly"
    /\ IF QuarterlyInsertFails(agg_credit_metrics_quarterly, rows)
       THEN Handler(s)
       ELSE /\ agg_credit_metrics_quarterly' = agg_credit_metrics_quarterly \cup rows
            /\ pc' = [pc EXCEPT ![s] = "commit"]
            /\ UNCHANGED <<agg_credit_metrics_yearly, txn, err>>
    /\ UNCHANGED <<dimAndFact, hist>>

Commit(s) ==
    /\ pc[s] = "commit"
    /\ txn' = [txn EXCEPT ![s] = NULL]
    /\ pc' = [pc EXCEPT ![s] = "done"]
    /\ UNCHANGED <<dimAndFact, agg_credit_metrics_yearly, agg_credit_metrics_quarterly,
                   err, hist>>

\* the call returns to the event scheduler, with or without the error
Return(s) ==
    /\ pc[s] \in {"done", "failed"}
    /\ pc' = [pc EXCEPT ![s] = "idle"]
    /\ hist' = [hist EXCEPT !.pre[s] = NULL,
                            !.prev = V([tables |-> Tables, err |-> err[s]])]
    /\ UNCHANGED <<dimAndFact, agg_credit_metrics_yearly, agg_credit_metrics_quarterly,
                   err, txn>>

----------------------------------------------------------------------------
(* Specifications *)

NoHistory == [pre |-> [s \in Sessions |-> NULL], prev |-> NULL]

\* dim_product as CREATE TABLE IF NOT EXISTS makes it
TargetColumns ==
    [product_key  |-> [type |-> "INT", nullable |-> FALSE, in_primary_key |-> TRUE],
     product_code |-> [type |-> "VARCHAR(64)", nullable |-> TRUE, in_primary_key |-> FALSE],
     product_type |-> [type |-> "VARCHAR(64)", nullable |-> TRUE, in_primary_key |-> FALSE],
     segment      |-> [type |-> "VARCHAR(64)", nullable |-> TRUE, in_primary_key |-> FALSE]]

\* UNIQUE KEY uq_prod (product_code, product_type, segment)
UqProdColumns == <<"product_code", "product_type", "segment">>

HealIdle ==
    [pc |-> "idle", run |-> 0, alters |-> 0, total |-> 0, after_completed |-> FALSE,
     start |-> NULL]

SessionsIdle ==
    /\ pc = [s \in Sessions |-> "idle"]
    /\ err = [s \in Sessions |-> FALSE]
    /\ txn = [s \in Sessions |-> NULL]
    /\ hist = NoHistory

\* the readers: the reporting views, the two cubes, the validator
Readers == {"v_olap_credit_metrics", "v_powerbi_optimized", "v_credit_metrics_trends",
            "CreditMetrics", "CreditMetricsTotals", "CreditMetricsCalculated",
            "ValidateOLAPDataQuality"}

ReadersIdle == resultset = [c \in Readers |-> NULL]

HealerIdle ==
    /\ dp_columns = TargetColumns
    /\ dp_indexes = [ix \in {"PRIMARY", "uq_prod"} |->
                        IF ix = "PRIMARY" THEN <<"product_key">> ELSE UqProdColumns]
    /\ heal = HealIdle

\* dimension loads the warehouse is refreshed over
GeoLoads ==
    { {GeoRow(1, <<V("US"), NULL, NULL>>), GeoRow(2, <<V("US"), V("CA"), V("LA")>>)},
      {GeoRow(1, <<V("US"), NULL, NULL>>), GeoRow(2, <<NULL, NULL, NULL>>)} }

DimensionsLoaded ==
    /\ dim_date_qtr = {DateRow(qk) : qk \in QuarterKeys}
    /\ dim_geo \in GeoLoads
    /\ dim_product = {ProductRow(1, <<V("CC"), V("CreditCard"), V("Retail")>>)}
    /\ auto_increment = [geo |-> 3, product |-> 2]
    /\ sqlstate = Stmt("upsert_product", "ok")

\* the schema is created, the dimensions are loaded, no fact is
Init ==
    /\ DimensionsLoaded
    /\ fact_credit_metrics_qtr = {}
    /\ agg_credit_metrics_yearly = {}
    /\ agg_credit_metrics_quarterly = {}
    /\ SessionsIdle
    /\ ReadersIdle
    /\ HealerIdle

\* a Loader write between two maintenance runs; its outcome is not kept
BetweenRuns ==
    /\ \A s \in Sessions : pc[s] = "idle"
    /\ hist' = NoHistory
    /\ UNCHANGED <<agg_credit_metrics_yearly, agg_credit_metrics_quarterly, pc, err, txn,
                   sqlstate>>
    /\ UNCHANGED <<healVars, resultset>>

UpsertFactBetweenRuns ==
    /\ \E d \in dim_date_qtr, g \in dim_geo, p \in dim_product, m \in Measures :
           LoaderUpsertFact(d.quarter_key, g.geo_key, p.product_key, m)
    /\ BetweenRuns

ClearFactsBetweenRuns ==
    /\ LoaderClearFacts
    /\ BetweenRuns

\* one maintenance call at a time
Next ==
    \/ UpsertFactBetweenRuns
    \/ ClearFactsBetweenRuns
    \/ \E s \in Sessions : Alone(s) /\ Invoke(s) /\ UNCHANGED <<healVars, resultset>>
    \/ \E s \in Sessions : Alone(s) /\ AnalyzeTables(s) /\ UNCHANGED <<healVars, resultset>>
    \/ \E s \in Sessions : Alone(s) /\ OptimizeTables(s) /\ UNCHANGED <<healVars, resultset>>
    \/ \E s \in Sessions : Alone(s) /\ StartTransaction(s) /\ UNCHANGED <<healVars, resultset>>
    \/ \E s \in Sessions : Alone(s) /\ TruncateYearly(s) /\ UNCHANGED <<healVars, resultset>>
    \/ \E s \in Sessions : Alone(s) /\ InsertYearly(s) /\ UNCHANGED <<healVars, resultset>>
    \/ \E s \in Sessions : Alone(s) /\ TruncateQuarterly(s) /\ UNCHANGED <<healVars, resultset>>
    \/ \E s \in Sessions : Alone(s) /\ InsertQuarterly(s) /\ UNCHANGED <<healVars, resultset>>
    \/ \E s \in Sessions : Alone(s) /\ Commit(s) /\ UNCHANGED <<healVars, resultset>>
    \/ \E s \in Sessions : Alone(s) /\ Return(s) /\ UNCHANGED <<healVars, resultset>>

Spec == Init /\ [][Next]_vars

----------------------------------------------------------------------------
(* Rollup refresh: claims *)

Running(s) == pc[s] \notin {"idle", "done", "failed"}

Pre(s) == Val(hist.pre[s])

YearlyNow == YearlySelect(fact_credit_metrics_qtr, dim_date_qtr, dim_geo, dim_product)

QuarterlyNow == QuarterlySelect(fact_credit_metrics_qtr, dim_date_qtr, dim_geo, dim_product)

\* C1: while a refresh runs, a reader of a rollup table sees the complete
\* pre-refresh rows or the complete post-refresh rows of that table, so it
\* sees no rows only where the table is empty before or after the refresh
ReaderSeesOldOrNew ==
    \A s \in Sessions : Running(s) =>
        /\ agg_credit_metrics_yearly \in {Pre(s).yearly, YearlyNow}
        /\ agg_credit_metrics_quarterly \in {Pre(s).quarterly, QuarterlyNow}

\* C2: when a statement of the refresh fails, after the handler both rollup
\* tables hold the rows they held before the refresh started and the error
\* reaches the caller
FailureRestoresRollups ==
    \A s \in Sessions : pc[s] = "failed" =>
        /\ agg_credit_metrics_yearly = Pre(s).yearly
        /\ agg_credit_metrics_quarterly = Pre(s).quarterly
        /\ err[s]

\* a refresh has succeeded and nothing was written since
Refreshed ==
    \/ \E s \in Sessions : pc[s] = "done"
    \/ /\ \A s \in Sessions : pc[s] = "idle"
       /\ hist.prev # NULL
       /\ ~Val(hist.prev).err

GroupFacts(k, keyOf(_)) ==
    { j[1] : j \in { x \in FactJoin(fact_credit_metrics_qtr, dim_date_qtr, dim_geo, dim_product) :
                       keyOf(x) = k } }

TotalsAre(r, F) ==
    /\ r.total_originations_cnt = SQL_SUM(F, "originations_cnt")
    /\ r.total_origination_amt = SQL_SUM(F, "origination_amt")
    /\ r.total_balance_amt = SQL_SUM(F, "balance_amt")

RateColumns ==
    { <<"avg_default_rate", "default_rate">>, <<"avg_prime_rate", "prime_rate">>,
      <<"avg_lending_rate", "lending_rate">> }

\* the stored average is the exact quotient
AveragesExact(r, F) ==
    \A c \in RateColumns :
        LET N == NonNull(F, c[2]) IN
        IF N = {} THEN IsNull(r[c[1]])
        ELSE /\ ~IsNull(r[c[1]])
             /\ Cardinality(N) * Val(r[c[1]]) = SumOver(N, c[2])

\* the stored average is the quotient rounded to the column's four decimals
AveragesRounded(r, F) ==
    \A c \in RateColumns :
        LET N == NonNull(F, c[2]) IN
        IF N = {} THEN IsNull(r[c[1]])
        ELSE /\ ~IsNull(r[c[1]])
             /\ 2 * Abs(Cardinality(N) * Val(r[c[1]]) - SumOver(N, c[2])) <= Cardinality(N)

YearlyKeysNow ==
    { YearlyGroupKey(j) :
        j \in FactJoin(fact_credit_metrics_qtr, dim_date_qtr, dim_geo, dim_product) }

QuarterlyKeysNow ==
    { <<j[2].quarter_key, j[3].country, j[4].product_type>> :
        j \in FactJoin(fact_credit_metrics_qtr, dim_date_qtr, dim_geo, dim_product) }

QuarterlyClaimKey(j) == <<j[2].quarter_key, j[3].country, j[4].product_type>>

\* C3 as stated: after a successful refresh every grouping key of the join has
\* exactly one rollup row, its totals the SUM and its rates the AVG of the
\* matching facts
RollupEqualsSumAndAvg ==
    Refreshed =>
        /\ \A k \in YearlyKeysNow :
             LET R == {r \in agg_credit_metrics_yearly : YearlyKey(r) = k} IN
             /\ Cardinality(R) = 1
             /\ \A r \in R : /\ TotalsAre(r, GroupFacts(k, YearlyGroupKey))
                             /\ AveragesExact(r, GroupFacts(k, YearlyGroupKey))
        /\ \A k \in QuarterlyKeysNow :
             LET R == {r \in agg_credit_metrics_quarterly : QuarterlyKey(r) = k} IN
             /\ Cardinality(R) = 1
             /\ \A r \in R : /\ TotalsAre(r, GroupFacts(k, QuarterlyClaimKey))
                             /\ AveragesExact(r, GroupFacts(k, QuarterlyClaimKey))

\* C3 amended: after a successful refresh every grouping key of the join has
\* exactly one rollup row, its totals the SUM of the matching facts and its
\* rates their AVG rounded to four decimals
RollupEqualsSumAndRoundedAvg ==
    Refreshed =>
        /\ \A k \in YearlyKeysNow :
             LET R == {r \in agg_credit_metrics_yearly : YearlyKey(r) = k} IN
             /\ Cardinality(R) = 1
             /\ \A r \in R : /\ TotalsAre(r, GroupFacts(k, YearlyGroupKey))
                             /\ AveragesRounded(r, GroupFacts(k, YearlyGroupKey))
        /\ \A k \in QuarterlyKeysNow :
             LET R == {r \in agg_credit_metrics_quarterly : QuarterlyKey(r) = k} IN
             /\ Cardinality(R) = 1
             /\ \A r \in R : /\ TotalsAre(r, GroupFacts(k, QuarterlyClaimKey))
                             /\ AveragesRounded(r, GroupFacts(k, QuarterlyClaimKey))

\* a refresh succeeded over two facts of one year whose rates do not average
\* to a multiple of 0.0001, next to Scenario A's single fact
RoundedAverageStored ==
    /\ Refreshed
    /\ \E r \in agg_credit_metrics_yearly :
         /\ YearlyKey(r) = <<2024, V("US"), V("CreditCard")>>
         /\ Cardinality(GroupFacts(YearlyKey(r), YearlyGroupKey)) = 2
         /\ SumOver(GroupFacts(YearlyKey(r), YearlyGroupKey), "default_rate") % 2 = 1
    /\ \E r \in agg_credit_metrics_quarterly :
         /\ r.total_origination_amt = V(50000000)
         /\ r.avg_default_rate = V(300)

\* C4: a second invocation directly after a first one leaves every dimension,
\* fact and rollup table as the first left it, and ends as the first did
SecondRunChangesNothing ==
    \A s \in Sessions : (pc[s] \in {"done", "failed"} /\ hist.prev # NULL) =>
        /\ Tables = Val(hist.prev).tables
        /\ err[s] = Val(hist.prev).err

\* a second invocation has completed over rollups the first one filled
SecondRunCompleted ==
    \E s \in Sessions :
        /\ pc[s] = "done"
        /\ hist.prev # NULL
        /\ agg_credit_metrics_yearly # {}
        /\ agg_credit_metrics_quarterly # {}

\* the fact rows stored under a year, a country and a product type
FactsOfYear(year, country, product_type) ==
    { f \in fact_credit_metrics_qtr :
        \E d \in dim_date_qtr, g \in dim_geo, p \in dim_product :
            /\ d.quarter_key = f.quarter_key /\ d.year = year
            /\ g.geo_key = f.geo_key /\ g.country = country
            /\ p.product_key = f.product_key /\ p.product_type = product_type }

FactsOfQuarter(quarter_key, country, product_type) ==
    { f \in fact_credit_metrics_qtr :
        /\ f.quarter_key = quarter_key
        /\ \E g \in dim_geo, p \in dim_product :
              /\ g.geo_key = f.geo_key /\ g.country = country
              /\ p.product_key = f.product_key /\ p.product_type = product_type }

\* C23: after a successful refresh neither rollup table holds a row whose
\* grouping key has no matching fact row, so the key of removed facts is gone
RollupsFullyReplaced ==
    Refreshed =>
        /\ \A r \in agg_credit_metrics_yearly :
              FactsOfYear(r.year, r.country, r.product_type) # {}
        /\ \A r \in agg_credit_metrics_quarterly :
              FactsOfQuarter(r.quarter_key, r.country, r.product_type) # {}

\* a refresh has completed over facts of another quarter than the one the
\* rollup held a row for when the refresh started
RemovedKeyRefreshedAway ==
    \E s \in Sessions :
        /\ pc[s] = "done"
        /\ agg_credit_metrics_quarterly # {}
        /\ \E old \in Pre(s).quarterly :
              /\ FactsOfQuarter(old.quarter_key, old.country, old.product_type) = {}
              /\ \A r \in agg_credit_metrics_quarterly : QuarterlyKey(r) # QuarterlyKey(old)

\* C24: after a successful RefreshAllAggregations each declared rollup
\* table equals its recomputation from the current fact and dimension rows:
\* the yearly and the quarterly table the grouped SELECT, and the monthly
\* table, whichever month a quarter's facts are put under, a relation with
\* rows exactly when the join has rows
EveryDeclaredRollupRebuilt ==
    Refreshed =>
        /\ agg_credit_metrics_yearly = YearlyNow
        /\ agg_credit_metrics_quarterly = QuarterlyNow
        /\ (agg_credit_metrics_monthly = {}) <=>
              (FactJoin(fact_credit_metrics_qtr, dim_date_qtr, dim_geo, dim_product) = {})

\* C29: RefreshAllAggregations succeeds in every state that satisfies the
\* table constraints, a referenced dim_geo row with NULL country included:
\* no call ends in the handler with an error, because no INSERT ... SELECT of
\* the procedure is rejected by the primary key of its rollup table
RefreshAlwaysSucceeds ==
    \A s \in Sessions : pc[s] # "failed" /\ ~err[s]

----------------------------------------------------------------------------
(* Overlapping maintenance: both events start at CURRENT_TIMESTAMP *)

\* the fact tables a load can leave over the given dimensions
FactLoads(dates, geos, products) ==
    { F \in SUBSET { FactRow(d.quarter_key, g.geo_key, p.product_key, m) :
                        d \in dates, g \in geos, p \in products, m \in Measures } :
        /\ Cardinality(F) <= MaxFactRows
        /\ \A r \in F : ~FactForeignKeyViolation(r, dates, geos, products)
        /\ \A r \in F : ~FactPrimaryKeyDuplicate(F \ {r}, r) }

\* loaded and refreshed, every country and product type known
InitOverlap ==
    /\ DimensionsLoaded
    /\ \A g \in dim_geo : ~IsNull(g.country)
    /\ fact_credit_metrics_qtr \in FactLoads(dim_date_qtr, dim_geo, dim_product)
    /\ agg_credit_metrics_yearly = YearlyNow
    /\ agg_credit_metrics_quarterly = QuarterlyNow
    /\ SessionsIdle
    /\ ReadersIdle
    /\ HealerIdle

NextOverlap ==
    \/ \E s \in Sessions : Invoke(s) /\ UNCHANGED <<healVars, resultset>>
    \/ \E s \in Sessions : AnalyzeTables(s) /\ UNCHANGED <<healVars, resultset>>
    \/ \E s \in Sessions : OptimizeTables(s) /\ UNCHANGED <<healVars, resultset>>
    \/ \E s \in Sessions : StartTransaction(s) /\ UNCHANGED <<healVars, resultset>>
    \/ \E s \in Sessions : TruncateYearly(s) /\ UNCHANGED <<healVars, resultset>>
    \/ \E s \in Sessions : InsertYearly(s) /\ UNCHANGED <<healVars, resultset>>
    \/ \E s \in Sessions : TruncateQuarterly(s) /\ UNCHANGED <<healVars, resultset>>
    \/ \E s \in Sessions : InsertQuarterly(s) /\ UNCHANGED <<healVars, resultset>>
    \/ \E s \in Sessions : Commit(s) /\ UNCHANGED <<healVars, resultset>>
    \/ \E s \in Sessions : Return(s) /\ UNCHANGED <<healVars, resultset>>

SpecOverlap == InitOverlap /\ [][NextOverlap]_vars

\* C5: when the two events' calls overlap, under every interleaving of their
\* statements both finish without error and each rollup table ends equal to
\* the recomputation over the current fact and dimension rows
OverlappingRunsSucceed ==
    /\ \A s \in Sessions : pc[s] # "failed" /\ ~err[s]
    /\ (\A s \in Sessions : pc[s] = "done") =>
           /\ agg_credit_metrics_yearly = YearlyNow
           /\ agg_credit_metrics_quarterly = QuarterlyNow

----------------------------------------------------------------------------
(* Loading: the Loader and other writers against the schema's constraints *)

InitLoad ==
    /\ dim_date_qtr = {}
    /\ dim_geo = {}
    /\ dim_product = {}
    /\ fact_credit_metrics_qtr = {}
    /\ agg_credit_metrics_yearly = {}
    /\ agg_credit_metrics_quarterly = {}
    /\ auto_increment = [geo |-> 1, product |-> 1]
    /\ sqlstate = Stmt("create_table", "ok")
    /\ SessionsIdle
    /\ ReadersIdle
    /\ HealerIdle

notLoaded == <<agg_credit_metrics_yearly, agg_credit_metrics_quarterly,
               pc, err, txn, hist, dp_columns, dp_indexes, heal, resultset>>

\* the statement's outcome as the writing session sees it
Outcome(op, code) ==
    /\ sqlstate' = Stmt(op, code)
    /\ UNCHANGED notLoaded

NextLoad ==
    \/ \E qk \in QuarterKeys : LoaderUpsertDate(qk) /\ Outcome("upsert_date", "ok")
    \/ \E nk \in GeoNaturalKeys : LoaderUpsertGeo(nk) /\ Outcome("upsert_geo", "ok")
    \/ \E nk \in ProductNaturalKeys : LoaderUpsertProduct(nk) /\ Outcome("upsert_product", "ok")
    \/ \E qk \in QuarterKeys, gk \in 1..MaxGeoKey, pk \in 1..MaxProductKey, m \in SourceMeasures :
           /\ LoaderUpsertFact(qk, gk, pk, m)
           /\ Outcome("upsert_fact", UpsertFactOutcome(FactRow(qk, gk, pk, m)))
    \/ LoaderClearFacts /\ Outcome("clear_facts", "ok")
    \/ \E qk \in QuarterKeys :
           DeleteDate(qk) /\ Outcome("delete_date", DeleteOutcome("quarter_key", qk))
    \/ \E k \in 1..MaxGeoKey :
           DeleteGeo(k) /\ Outcome("delete_geo", DeleteOutcome("geo_key", k))
    \/ \E k \in 1..MaxProductKey :
           DeleteProduct(k) /\ Outcome("delete_product", DeleteOutcome("product_key", k))

SpecLoad == InitLoad /\ [][NextLoad]_vars

SameGrain(r1, r2) ==
    /\ r1.quarter_key = r2.quarter_key
    /\ r1.geo_key = r2.geo_key
    /\ r1.product_key = r2.product_key

\* C9: no two fact rows share (quarter_key, geo_key, product_key); an upsert
\* to a stored grain key with other measures replaces that row by the
\* upserted one and adds none, an upsert to a new grain key adds one row
GrainUnique ==
    /\ [](\A r1, r2 \in fact_credit_metrics_qtr : SameGrain(r1, r2) => r1 = r2)
    /\ [][ (sqlstate'.op = "upsert_fact" /\ sqlstate'.code = "updated") =>
              \E old \in fact_credit_metrics_qtr, new \in fact_credit_metrics_qtr' :
                  /\ SameGrain(old, new)
                  /\ old # new
                  /\ fact_credit_metrics_qtr' = (fact_credit_metrics_qtr \ {old}) \cup {new}
                  /\ \A x \in fact_credit_metrics_qtr' : SameGrain(x, new) => x = new ]_vars
    /\ [][ (sqlstate'.op = "upsert_fact" /\ sqlstate'.code = "inserted") =>
              \E new \in fact_credit_metrics_qtr' :
                  /\ fact_credit_metrics_qtr' = fact_credit_metrics_qtr \cup {new}
                  /\ \A x \in fact_credit_metrics_qtr : ~SameGrain(x, new) ]_vars

\* a second upsert has replaced the measures of the one stored grain key
LaterUpsertOverwrote ==
    /\ sqlstate.op = "upsert_fact"
    /\ sqlstate.code = "updated"
    /\ Cardinality(fact_credit_metrics_qtr) = 1

FactReferencesExist ==
    \A f \in fact_credit_metrics_qtr :
        /\ \E d \in dim_date_qtr : d.quarter_key = f.quarter_key
        /\ \E g \in dim_geo : g.geo_key = f.geo_key
        /\ \E p \in dim_product : p.product_key = f.product_key

RowMissesParent(r) ==
    \/ r.quarter_key \notin {d.quarter_key : d \in dim_date_qtr}
    \/ r.geo_key \notin {g.geo_key : g \in dim_geo}
    \/ r.product_key \notin {p.product_key : p \in dim_product}

\* C10: every fact row's three keys reference existing dimension rows; the
\* insert of a fact with a missing dimension key is rejected and leaves the
\* fact table unchanged; no statement removes a referenced dimension row
ReferentialIntegrity ==
    /\ []FactReferencesExist
    /\ [][ /\ \A r \in fact_credit_metrics_qtr' \ fact_credit_metrics_qtr : ~RowMissesParent(r)
           /\ sqlstate'.code = "fk_violation" => UNCHANGED fact_credit_metrics_qtr ]_vars
    /\ [][ \A f \in fact_credit_metrics_qtr :
              /\ \E d \in dim_date_qtr' : d.quarter_key = f.quarter_key
              /\ \E g \in dim_geo' : g.geo_key = f.geo_key
              /\ \E p \in dim_product' : p.product_key = f.product_key ]_vars

\* a fact insert was rejected for a missing parent while a fact is stored
FactInsertRejected ==
    /\ sqlstate.op = "upsert_fact"
    /\ sqlstate.code = "fk_violation"
    /\ fact_credit_metrics_qtr # {}

InUnitInterval(rate) == IsNull(rate) \/ (0 <= Val(rate) /\ Val(rate) <= 10000)

NotNegative(amt) == IsNull(amt) \/ Val(amt) >= 0

\* C21: whatever the Loader has upserted, every fact row has default_rate,
\* prime_rate and lending_rate NULL or within [0,1] and origination_amt and
\* balance_amt NULL or >= 0
MeasuresWithinRanges ==
    \A f \in fact_credit_metrics_qtr :
        /\ InUnitInterval(f.default_rate)
        /\ InUnitInterval(f.prime_rate)
        /\ InUnitInterval(f.lending_rate)
        /\ NotNegative(f.origination_amt)
        /\ NotNegative(f.balance_amt)

SameGeoTriple(g1, g2) ==
    <<g1.country, g1.state_province, g1.city>> = <<g2.country, g2.state_province, g2.city>>

SameProductTriple(p1, p2) ==
    <<p1.product_code, p1.product_type, p1.segment>> =
        <<p2.product_code, p2.product_type, p2.segment>>

----------------------------------------------------------------------------
(* The dim_product self-heal block, statement by statement.  A row of a    *)
(* legacy dim_product is a function from its column names to values;       *)
(* product_number values are written as literals.                          *)

Column(type, nullable, in_pk) ==
    [type |-> type, nullable |-> nullable, in_primary_key |-> in_pk]

NaturalKeyColumns == {"product_code", "product_type", "segment"}

\* literals of a legacy product_number column that INT can hold
IntLiterals == {"7"}

ProductNumberLiterals(type) ==
    IF type = "INT" THEN {"7"}
    ELSE IF type = "BIGINT" THEN {"7", "9999999999"}
    ELSE {"7", "P-100"}

HasProductNumber(cols) == "product_number" \in DOMAIN cols

\* COUNT(*) ... COLUMN_NAME='product_number' AND IS_NULLABLE='NO' is 1
NotNullProductNumber(cols) ==
    /\ "product_number" \in DOMAIN cols
    /\ ~cols["product_number"].nullable

\* ALTER TABLE dim_product ADD COLUMN c VARCHAR(64) NULL
AddColumn(cols, c) ==
    [x \in DOMAIN cols \cup {c} |->
        IF x = c THEN Column("VARCHAR(64)", TRUE, FALSE) ELSE cols[x]]

AddColumnToRows(rows, c) ==
    { [x \in DOMAIN r \cup {c} |-> IF x = c THEN NULL ELSE r[x]] : r \in rows }

\* MODIFY product_number INT NULL DEFAULT NULL raises on a primary-key column
\* and, in strict SQL mode, on a stored value INT cannot hold
ModifyFails(cols, rows) ==
    \/ cols["product_number"].in_primary_key
    \/ \E r \in rows : ~IsNull(r["product_number"]) /\ Val(r["product_number"]) \notin IntLiterals

\* ALTER TABLE dim_product MODIFY product_number INT NULL DEFAULT NULL
ModifyProductNumber(cols) ==
    [cols EXCEPT !["product_number"] = Column("INT", TRUE, FALSE)]

\* ADD UNIQUE KEY uq_prod raises on a TEXT column without key length and on
\* two rows equal in three non-NULL key columns
AddUniqueKeyFails(cols, rows) ==
    \/ \E c \in NaturalKeyColumns : cols[c].type = "TEXT"
    \/ \E r1, r2 \in rows :
         /\ r1 # r2
         /\ \A c \in NaturalKeyColumns : ~IsNull(r1[c]) /\ r1[c] = r2[c]

HealStep(to, issued) ==
    heal' = [heal EXCEPT !.pc = to,
                         !.alters = @ + (IF issued THEN 1 ELSE 0),
                         !.total = @ + (IF issued THEN 1 ELSE 0)]

\* the script is run against the table as it stands
RunSelfHeal ==
    /\ heal.pc \in {"idle", "done", "failed"}
    /\ heal.run < MaxRuns
    /\ heal' = [heal EXCEPT !.pc = "add_product_code", !.run = @ + 1, !.alters = 0,
                            !.after_completed = (heal.pc = "done"),
                            !.start = V([columns |-> dp_columns, indexes |-> dp_indexes,
                                         rows |-> dim_product])]
    /\ UNCHANGED <<dp_columns, dp_indexes, dim_product>>

AddIfMissing(c, from, to) ==
    /\ heal.pc = from
    /\ IF c \notin DOMAIN dp_columns
       THEN /\ dp_columns' = AddColumn(dp_columns, c)
            /\ dim_product' = AddColumnToRows(dim_product, c)
            /\ HealStep(to, TRUE)
       ELSE /\ UNCHANGED <<dp_columns, dim_product>>
            /\ HealStep(to, FALSE)
    /\ UNCHANGED dp_indexes

AddProductCode == AddIfMissing("product_code", "add_product_code", "add_product_type")

AddProductType == AddIfMissing("product_type", "add_product_type", "add_segment")

AddSegment == AddIfMissing("segment", "add_segment", "relax_product_number")

RelaxProductNumber ==
    /\ heal.pc = "relax_product_number"
    /\ IF NotNullProductNumber(dp_columns)
       THEN IF ModifyFails(dp_columns, dim_product)
            THEN /\ HealStep("failed", TRUE)
                 /\ UNCHANGED dp_columns
            ELSE /\ dp_columns' = ModifyProductNumber(dp_columns)
                 /\ HealStep("ensure_uq_prod", TRUE)
       ELSE /\ UNCHANGED dp_columns
            /\ HealStep("ensure_uq_prod", FALSE)
    /\ UNCHANGED <<dp_indexes, dim_product>>

EnsureUqProd ==
    /\ heal.pc = "ensure_uq_prod"
    /\ IF "uq_prod" \notin DOMAIN dp_indexes
       THEN IF AddUniqueKeyFails(dp_columns, dim_product)
            THEN /\ HealStep("failed", TRUE)
                 /\ UNCHANGED dp_indexes
            ELSE /\ dp_indexes' = [ix \in DOMAIN dp_indexes \cup {"uq_prod"} |->
                                       IF ix = "uq_prod" THEN UqProdColumns
                                       ELSE dp_indexes[ix]]
                 /\ HealStep("done", TRUE)
       ELSE /\ UNCHANGED dp_indexes
            /\ HealStep("done", FALSE)
    /\ UNCHANGED <<dp_columns, dim_product>>

\* the shapes a legacy dim_product comes in
LegacyColumnSets ==
    { cols \in [ NaturalKeyColumns -> {"absent", "VARCHAR(64)", "TEXT", "INT"} ] : TRUE }

LegacyProductNumbers ==
    {NULL} \cup { V(Column(t, n, k)) :
                    t \in {"INT", "BIGINT", "VARCHAR(20)"},
                    n \in BOOLEAN, k \in BOOLEAN }

\* a legacy product_code, where present, may be declared NOT NULL
LegacyColumns(present, pn, required) ==
    LET names == {"product_key"} \cup {c \in NaturalKeyColumns : present[c] # "absent"}
                 \cup (IF pn = NULL THEN {} ELSE {"product_number"})
    IN  [c \in names |->
            IF c = "product_key" THEN Column("INT", FALSE, TRUE)
            ELSE IF c = "product_number" THEN Val(pn)
            ELSE Column(present[c], ~(required /\ c = "product_code"), FALSE)]

\* an index named uq_prod a legacy table may carry already: none, the
\* composite one, or one over product_code alone
LegacyUqProd == {NULL, V(UqProdColumns), V(<<"product_code">>)}

LegacyIndexes(cols, uq) ==
    [ix \in {"PRIMARY"} \cup (IF uq = NULL THEN {} ELSE {"uq_prod"}) |->
        IF ix = "uq_prod" THEN Val(uq)
        ELSE IF "product_number" \in DOMAIN cols /\ cols["product_number"].in_primary_key
             THEN <<"product_key", "product_number">>
             ELSE <<"product_key">>]

\* the table admits a unique index over ixcols
LegacyIndexHolds(cols, rows, ixcols) ==
    /\ \A i \in 1..Len(ixcols) : ixcols[i] \in DOMAIN cols /\ cols[ixcols[i]].type # "TEXT"
    /\ \A r1, r2 \in rows :
          (\A i \in 1..Len(ixcols) : ~IsNull(r1[ixcols[i]]) /\ r1[ixcols[i]] = r2[ixcols[i]])
              => r1 = r2

LegacyRows(cols, n, lit) ==
    { [c \in DOMAIN cols |->
          IF c = "product_key" THEN V(k)
          ELSE IF c = "product_number" THEN V(lit)
          ELSE V("A")] : k \in 1..n }

InitHeal ==
    /\ \E present \in LegacyColumnSets, pn \in LegacyProductNumbers,
          uq \in LegacyUqProd, n \in 0..MaxLegacyRows, required \in BOOLEAN :
         /\ pn # NULL => (Val(pn).in_primary_key => ~Val(pn).nullable)
         /\ required => present["product_code"] # "absent"
         /\ dp_columns = LegacyColumns(present, pn, required)
         /\ dp_indexes = LegacyIndexes(dp_columns, uq)
         /\ \E lit \in (IF pn = NULL THEN {"7"} ELSE ProductNumberLiterals(Val(pn).type)) :
                dim_product = LegacyRows(dp_columns, n, lit)
         /\ uq # NULL => LegacyIndexHolds(dp_columns, dim_product, Val(uq))
    /\ heal = HealIdle
    /\ dim_date_qtr = {}
    /\ dim_geo = {}
    /\ fact_credit_metrics_qtr = {}
    /\ agg_credit_metrics_yearly = {}
    /\ agg_credit_metrics_quarterly = {}
    /\ auto_increment = [geo |-> 1, product |-> 1]
    /\ sqlstate = Stmt("create_table", "ok")
    /\ SessionsIdle
    /\ ReadersIdle

notHealed == <<dim_date_qtr, dim_geo, fact_credit_metrics_qtr,
               agg_credit_metrics_yearly, agg_credit_metrics_quarterly,
               auto_increment, sqlstate, pc, err, txn, hist, resultset>>

NextHeal ==
    \/ RunSelfHeal /\ UNCHANGED notHealed
    \/ AddProductCode /\ UNCHANGED notHealed
    \/ AddProductType /\ UNCHANGED notHealed
    \/ AddSegment /\ UNCHANGED notHealed
    \/ RelaxProductNumber /\ UNCHANGED notHealed
    \/ EnsureUqProd /\ UNCHANGED notHealed

SpecHeal == InitHeal /\ [][NextHeal]_vars

\* C6: a run of the block directly after a run that completed issues no
\* ALTER statement: every step evaluates to DO 0
SecondHealIssuesNoAlter ==
    heal.after_completed => heal.alters = 0

\* a second run has completed on a table the first run had to alter
SecondHealCompleted ==
    /\ heal.after_completed
    /\ heal.pc = "done"
    /\ heal.total > 0

\* C7: the block drops no column, changes no existing column's type and
\* deletes no row
HealIsAdditive ==
    heal.start # NULL =>
        /\ \A c \in DOMAIN Val(heal.start).columns :
              /\ c \in DOMAIN dp_columns
              /\ dp_columns[c].type = Val(heal.start).columns[c].type
        /\ Cardinality(dim_product) = Cardinality(Val(heal.start).rows)

Incompatible(cols) ==
    \E c \in NaturalKeyColumns \cap DOMAIN cols : cols[c].type # "VARCHAR(64)"

\* C8: when the block cannot reconcile the table additively it fails, and
\* the table's structure is then what it was before the block started
ConflictLeavesNoChange ==
    /\ heal.pc = "failed" =>
          /\ dp_columns = Val(heal.start).columns
          /\ dp_indexes = Val(heal.start).indexes
    /\ heal.pc = "done" => ~Incompatible(Val(heal.start).columns)

\* INSERT INTO dim_product (product_code, product_type, segment) finds no
\* other column that is NOT NULL without a default; product_key is the
\* AUTO_INCREMENT key
OtherColumnsAdmitInsert(cols) ==
    \A c \in DOMAIN cols \ (NaturalKeyColumns \cup {"product_key"}) : cols[c].nullable

\* C22: once the block has completed on a legacy dim_product, product_code,
\* product_type and segment exist and are nullable, a unique index covers
\* exactly (product_code, product_type, segment), and an insert of those
\* three columns alone is not rejected by another NOT NULL column
HealedShapeAdmitsLoader ==
    heal.pc = "done" =>
        /\ \A c \in NaturalKeyColumns : c \in DOMAIN dp_columns /\ dp_columns[c].nullable
        /\ \E ix \in DOMAIN dp_indexes \ {"PRIMARY"} : dp_indexes[ix] = UqProdColumns
        /\ OtherColumnsAdmitInsert(dp_columns)

----------------------------------------------------------------------------
(* The derived measures of a fact row.  Rates are in ten-thousandths       *)
(* (0.05 is 500), amounts in hundredths, quotients in millionths (MySQL    *)
(* adds four fractional digits to the dividend's), health scores in tenths *)
(* of a point.  A WHEN whose condition is NULL is not taken.               *)

GT(x, n) == ~IsNull(x) /\ Val(x) > n

LT(x, n) == ~IsNull(x) /\ Val(x) < n

LE(x, n) == ~IsNull(x) /\ Val(x) <= n

BETWEEN(x, lo, hi) == ~IsNull(x) /\ lo <= Val(x) /\ Val(x) <= hi

CoalesceKeepsNull(x, d) == x

COALESCE(x, d) == IF IsNull(x) THEN V(d) ELSE x

\* x / y with the quotient counted in units of 1/k of x's unit over y's;
\* NULL for a NULL operand and for division by zero
SQL_DIV(x, y, k) ==
    IF IsNull(x) \/ IsNull(y) THEN NULL
    ELSE IF Val(y) = 0 THEN NULL
    ELSE IF Val(y) > 0 THEN V(RoundDiv(Val(x) * k, Val(y)))
    ELSE V(RoundDiv(-(Val(x) * k), -Val(y)))

SQL_SUB(x, y) == IF IsNull(x) \/ IsNull(y) THEN NULL ELSE V(Val(x) - Val(y))

\* v_olap_credit_metrics.risk_category
olap_risk_category(f) ==
    IF GT(f.default_rate, 500) THEN "High Risk"
    ELSE IF GT(f.default_rate, 200) THEN "Medium Risk"
    ELSE IF GT(f.default_rate, 0) THEN "Low Risk"
    ELSE "Unknown"

\* v_olap_credit_metrics.avg_origination_per_account
olap_avg_origination_per_account(f) ==
    IF GT(f.originations_cnt, 0)
    THEN SQL_DIV(f.origination_amt, f.originations_cnt, 10000)
    ELSE NULL

\* v_olap_credit_metrics.balance_to_origination_ratio
olap_balance_to_origination_ratio(f) ==
    IF GT(f.origination_amt, 0)
    THEN SQL_DIV(f.balance_amt, f.origination_amt, 1000000)
    ELSE NULL

\* v_powerbi_optimized.risk_category
powerbi_risk_category(f) ==
    IF GT(f.default_rate, 500) THEN "High Risk"
    ELSE IF GT(f.default_rate, 200) THEN "Medium Risk"
    ELSE IF GT(f.default_rate, 0) THEN "Low Risk"
    ELSE "Unknown"

\* v_powerbi_optimized.avg_origination_per_account
powerbi_avg_origination_per_account(f) ==
    IF GT(f.originations_cnt, 0)
    THEN SQL_DIV(f.origination_amt, f.originations_cnt, 10000)
    ELSE V(0)

\* v_powerbi_optimized.balance_to_origination_ratio
powerbi_balance_to_origination_ratio(f) ==
    IF GT(f.origination_amt, 0)
    THEN SQL_DIV(f.balance_amt, f.origination_amt, 1000000)
    ELSE V(0)

\* CreditMetrics.riskCategory
riskCategory(f) ==
    IF GT(f.default_rate, 500) THEN "High Risk"
    ELSE IF BETWEEN(f.default_rate, 200, 500) THEN "Medium Risk"
    ELSE IF LT(f.default_rate, 200) THEN "Low Risk"
    ELSE "Unknown"

\* CreditMetrics.averageOriginationPerAccount
averageOriginationPerAccount(f) == SQL_DIV(f.origination_amt, f.originations_cnt, 10000)

\* CreditMetrics.balanceToOriginationRatio
balanceToOriginationRatio(f) == SQL_DIV(f.balance_amt, f.origination_amt, 1000000)

\* CreditMetrics.highRiskAccounts, mediumRiskAccounts, lowRiskAccounts: the
\* row's term of the sum
highRiskAccounts(f) ==
    IF GT(f.default_rate, 500) THEN f.originations_cnt ELSE V(0)

mediumRiskAccounts(f) ==
    IF BETWEEN(f.default_rate, 200, 500) THEN f.originations_cnt ELSE V(0)

lowRiskAccounts(f) ==
    IF LT(f.default_rate, 200) THEN f.originations_cnt ELSE V(0)

\* CreditMetricsCalculated.riskCategoryDetailed
riskCategoryDetailed(f) ==
    IF GT(f.default_rate, 1000) THEN "Critical Risk"
    ELSE IF GT(f.default_rate, 500) THEN "High Risk"
    ELSE IF BETWEEN(f.default_rate, 300, 500) THEN "Medium-High Risk"
    ELSE IF BETWEEN(f.default_rate, 200, 300) THEN "Medium Risk"
    ELSE IF BETWEEN(f.default_rate, 100, 200) THEN "Low-Medium Risk"
    ELSE IF LT(f.default_rate, 100) THEN "Low Risk"
    ELSE "Unknown"

HealthScoreWithoutStep(f) ==
    IF LE(f.default_rate, 200) THEN 1000
    ELSE IF LE(f.default_rate, 500) THEN 1000 - (Val(f.default_rate) - 200)
    ELSE IF LE(f.default_rate, 1000) THEN 500 - (Val(f.default_rate) - 500)
    ELSE 0

\* CreditMetricsCalculated.portfolioHealthScore, in tenths of a point:
\* (default_rate - 0.02) * 1000 is one tenth per ten-thousandth of rate
portfolioHealthScore(f) ==
    IF LE(f.default_rate, 200) THEN 1000
    ELSE IF LE(f.default_rate, 500) THEN 800 - (Val(f.default_rate) - 200)
    ELSE IF LE(f.default_rate, 1000) THEN 500 - (Val(f.default_rate) - 500)
    ELSE 0

----------------------------------------------------------------------------
(* Window-relative measures of CreditMetricsCalculated over the rows of    *)
(* SELECT * FROM fact_credit_metrics_qtr                                   *)

SQL_MUL(x, n) == IF IsNull(x) THEN NULL ELSE V(Val(x) * n)

\* the rows of f's window partition
GeoProductPartition(facts, f) ==
    {x \in facts : x.geo_key = f.geo_key /\ x.product_key = f.product_key}

\* LAG(col, n) OVER (PARTITION BY geo_key, product_key ORDER BY quarter_key):
\* col of the row n positions before f, NULL if there is none
LAG(facts, f, col, n) ==
    LET earlier == {x \in GeoProductPartition(facts, f) : x.quarter_key < f.quarter_key}
    IN  IF Cardinality(earlier) < n THEN NULL
        ELSE (CHOOSE x \in earlier :
                Cardinality({y \in earlier : y.quarter_key > x.quarter_key}) = n - 1)[col]

GrowthRateUnguarded(cur, prev) ==
    SQL_MUL(SQL_DIV(SQL_SUB(cur, prev), prev, 1000000), 100)

\* ((cur - prev) / prev) * 100 behind WHEN prev > 0, ELSE 0; a percentage
\* in millionths
GrowthRate(cur, prev) ==
    IF GT(prev, 0)
    THEN SQL_MUL(SQL_DIV(SQL_SUB(cur, prev), prev, 1000000), 100)
    ELSE V(0)

originationGrowthRate(facts, f) ==
    GrowthRate(f.origination_amt, LAG(facts, f, "origination_amt", 4))

balanceGrowthRate(facts, f) ==
    GrowthRate(f.balance_amt, LAG(facts, f, "balance_amt", 4))

SameQuarter(facts, f) == {x \in facts : x.quarter_key = f.quarter_key}

\* origination_amt / (SELECT SUM(origination_amt) ... WHERE quarter_key = ...) * 100
marketShareByProduct(facts, f) ==
    SQL_MUL(SQL_DIV(f.origination_amt,
                    SQL_SUM(SameQuarter(facts, f), "origination_amt"), 1000000), 100)

\* AVG(origination_amt) of the quarter, in millionths of a dollar
QuarterAverage(facts, f) ==
    LET S == SameQuarter(facts, f)
    IN  IF NonNull(S, "origination_amt") = {} THEN NULL
        ELSE V(RoundDiv(SumOver(S, "origination_amt") * 10000,
                        Cardinality(NonNull(S, "origination_amt"))))

\* ((origination_amt - avg) / avg) * 100 behind WHEN avg > 0, ELSE 0; the
\* quotient is kept as the fraction <<numerator, denominator>>, 0 as <<0, 1>>
performanceVsAverage(facts, f) ==
    LET avg == QuarterAverage(facts, f)
    IN  IF GT(avg, 0)
        THEN (IF IsNull(f.origination_amt) THEN NULL
              ELSE V(<<(Val(f.origination_amt) * 10000 - Val(avg)) * 100, Val(avg)>>))
        ELSE V(<<0, 1>>)

----------------------------------------------------------------------------
(* The reporting views and the cubes' row queries *)

\* YEAR(d) and QUARTER(d) of a day number
CivilFromDays(day) ==
    LET z   == day + 719468
        era == z \div 146097
        doe == z - era * 146097
        yoe == (doe - doe \div 1460 + doe \div 36524 - doe \div 146096) \div 365
        doy == doe - (365 * yoe + yoe \div 4 - yoe \div 100)
        mp  == (5 * doy + 2) \div 153
        m   == IF mp < 10 THEN mp + 3 ELSE mp - 9
    IN  [year |-> yoe + era * 400 + (IF m <= 2 THEN 1 ELSE 0), month |-> m]

YEAR(d) == IF IsNull(d) THEN NULL ELSE V(CivilFromDays(Val(d)).year)

QUARTER(d) == IF IsNull(d) THEN NULL ELSE V((CivilFromDays(Val(d)).month - 1) \div 3 + 1)

\* CONCAT_WS(sep, ...): the non-NULL arguments, to be joined by sep
CONCAT_WS(sep, args) == <<sep, SelectSeq(args, LAMBDA a : ~IsNull(a))>>

\* j precedes k under ORDER BY d.year, d.quarter
OrderedBefore(j, k) ==
    \/ j[2].year < k[2].year
    \/ j[2].year = k[2].year /\ j[2].quarter < k[2].quarter

\* ROW_NUMBER() OVER (ORDER BY d.year, d.quarter): every order of the join
\* rows the ORDER BY admits; rows of one quarter come in any order
RECURSIVE RowNumberings(_)
RowNumberings(J) ==
    IF J = {} THEN {<<>>}
    ELSE UNION { {<<j>> \o s : s \in RowNumberings(J \ {j})} :
                 j \in {k \in J : \A x \in J : ~OrderedBefore(x, k)} }

OlapRow(j, n) ==
    LET f == j[1]  d == j[2]  g == j[3]  p == j[4] IN
    [quarter_key |-> d.quarter_key, year |-> d.year, quarter |-> d.quarter,
     quarter_start |-> d.quarter_start, quarter_end |-> d.quarter_end,
     quarter_label |-> <<d.year, " Q", d.quarter>>,
     geo_key |-> g.geo_key, country |-> g.country,
     state_province |-> g.state_province, city |-> g.city,
     product_key |-> p.product_key, product_code |-> p.product_code,
     product_type |-> p.product_type, segment |-> p.segment,
     originations_cnt |-> f.originations_cnt, origination_amt |-> f.origination_amt,
     balance_amt |-> f.balance_amt, default_rate |-> f.default_rate,
     prime_rate |-> f.prime_rate, lending_rate |-> f.lending_rate,
     avg_origination_per_account |-> olap_avg_origination_per_account(f),
     balance_to_origination_ratio |-> olap_balance_to_origination_ratio(f),
     risk_category |-> olap_risk_category(f),
     prime_lending_spread |-> SQL_SUB(f.prime_rate, f.lending_rate),
     time_sequence |-> n,
     days_in_quarter |-> SQL_SUB(DATEDIFF(d.quarter_end, d.quarter_start), V(-1))]

\* the results SELECT * FROM v_olap_credit_metrics can give
v_olap_credit_metrics(facts, dates, geos, products) ==
    { {OlapRow(s[i], i) : i \in 1..Len(s)} :
        s \in RowNumberings(FactJoin(facts, dates, geos, products)) }

PowerBIRow(j, n, curdate) ==
    LET f == j[1]  d == j[2]  g == j[3]  p == j[4] IN
    [quarter_key |-> d.quarter_key, year |-> d.year, quarter |-> d.quarter,
     quarter_start |-> d.quarter_start, quarter_end |-> d.quarter_end,
     quarter_label |-> <<d.year, " Q", d.quarter>>,
     fiscal_year |-> YEAR(d.quarter_start), fiscal_quarter |-> QUARTER(d.quarter_start),
     geo_key |-> g.geo_key, country |-> g.country,
     state_province |-> g.state_province, city |-> g.city,
     full_address |-> CONCAT_WS(", ", <<g.city, g.state_province, g.country>>),
     product_key |-> p.product_key, product_code |-> p.product_code,
     product_type |-> p.product_type, segment |-> p.segment,
     product_description |-> CONCAT_WS(" - ", <<p.product_type, p.segment>>),
     originations_cnt |-> COALESCE(f.originations_cnt, 0),
     origination_amt |-> COALESCE(f.origination_amt, 0),
     balance_amt |-> COALESCE(f.balance_amt, 0),
     default_rate |-> COALESCE(f.default_rate, 0),
     prime_rate |-> COALESCE(f.prime_rate, 0),
     lending_rate |-> COALESCE(f.lending_rate, 0),
     avg_origination_per_account |-> powerbi_avg_origination_per_account(f),
     balance_to_origination_ratio |-> powerbi_balance_to_origination_ratio(f),
     prime_lending_spread |-> SQL_SUB(f.prime_rate, f.lending_rate),
     risk_category |-> powerbi_risk_category(f),
     time_sequence |-> n,
     days_in_quarter |-> SQL_SUB(DATEDIFF(d.quarter_end, d.quarter_start), V(-1)),
     is_recent |-> IF d.year >= Val(YEAR(V(curdate))) - 1 THEN 1 ELSE 0,
     is_q4 |-> IF d.quarter = 4 THEN 1 ELSE 0,
     is_h1 |-> IF d.quarter \in {1, 2} THEN 1 ELSE 0]

\* the results SELECT * FROM v_powerbi_optimized can give on the day curdate
v_powerbi_optimized(facts, dates, geos, products, curdate) ==
    { {PowerBIRow(s[i], i, curdate) : i \in 1..Len(s)} :
        s \in RowNumberings(FactJoin(facts, dates, geos, products)) }

\* CreditMetrics queried by its three keys: one row per fact row, each
\* measure over that one row
CreditMetrics(facts) ==
    { [quarterKey |-> f.quarter_key, geoKey |-> f.geo_key, productKey |-> f.product_key,
       riskCategory |-> riskCategory(f),
       totalOriginations |-> f.originations_cnt,
       totalOriginationAmount |-> f.origination_amt,
       averageOriginationPerAccount |-> averageOriginationPerAccount(f),
       totalBalanceAmount |-> f.balance_amt,
       balanceToOriginationRatio |-> balanceToOriginationRatio(f),
       averageDefaultRate |-> f.default_rate,
       averagePrimeRate |-> f.prime_rate,
       averageLendingRate |-> f.lending_rate,
       primeLendingSpread |-> SQL_SUB(f.prime_rate, f.lending_rate),
       highRiskAccounts |-> highRiskAccounts(f),
       mediumRiskAccounts |-> mediumRiskAccounts(f),
       lowRiskAccounts |-> lowRiskAccounts(f)] : f \in facts }

\* the terms the four sum measures take from each fact row
RiskTerms(facts) ==
    { [key |-> FactKey(f),
       totalOriginations |-> f.originations_cnt,
       highRiskAccounts |-> highRiskAccounts(f),
       mediumRiskAccounts |-> mediumRiskAccounts(f),
       lowRiskAccounts |-> lowRiskAccounts(f)] : f \in facts }

\* CreditMetrics queried for its count measures without a dimension: one row,
\* each measure the SUM of its terms over all fact rows
CreditMetricsTotals(facts) ==
    { [totalOriginations |-> SQL_SUM(RiskTerms(facts), "totalOriginations"),
       highRiskAccounts |-> SQL_SUM(RiskTerms(facts), "highRiskAccounts"),
       mediumRiskAccounts |-> SQL_SUM(RiskTerms(facts), "mediumRiskAccounts"),
       lowRiskAccounts |-> SQL_SUM(RiskTerms(facts), "lowRiskAccounts")] }

\* CreditMetricsCalculated queried by its three keys
CreditMetricsCalculated(facts) ==
    { [quarterKey |-> f.quarter_key, geoKey |-> f.geo_key, productKey |-> f.product_key,
       riskCategory |-> riskCategory(f),
       riskCategoryDetailed |-> riskCategoryDetailed(f),
       originationGrowthRate |-> originationGrowthRate(facts, f),
       balanceGrowthRate |-> balanceGrowthRate(facts, f),
       marketShareByProduct |-> marketShareByProduct(facts, f),
       performanceVsAverage |-> performanceVsAverage(facts, f),
       portfolioHealthScore |-> portfolioHealthScore(f),
       riskReductionActual |-> f.default_rate,
       riskReductionGap |-> SQL_SUB(f.default_rate, V(200))] : f \in facts }

\* AVG(col) as a view selects it: four more decimals than the column has
ViewAvg(S, col) ==
    IF NonNull(S, col) = {} THEN NULL
    ELSE V(RoundDiv(SumOver(S, col) * 10000, Cardinality(NonNull(S, col))))

\* one row of GROUP BY d.year, d.quarter, d.quarter_key, g.country, p.product_type
TrendsGroup(k, F) ==
    [year |-> k[1], quarter |-> k[2], quarter_key |-> k[3],
     country |-> k[4], product_type |-> k[5],
     originations_cnt |-> SQL_SUM(F, "originations_cnt"),
     origination_amt  |-> SQL_SUM(F, "origination_amt"),
     balance_amt      |-> SQL_SUM(F, "balance_amt"),
     default_rate     |-> ViewAvg(F, "default_rate"),
     prime_rate       |-> ViewAvg(F, "prime_rate"),
     lending_rate     |-> ViewAvg(F, "lending_rate")]

\* LAG(col, n) OVER (PARTITION BY g.country, p.product_type ORDER BY d.year, d.quarter)
TrendsLag(G, g, col, n) ==
    LET Before(x, y) == x.year < y.year \/ (x.year = y.year /\ x.quarter < y.quarter)
        earlier == {x \in G : /\ x.country = g.country
                              /\ x.product_type = g.product_type
                              /\ Before(x, g)}
    IN  IF Cardinality(earlier) < n THEN NULL
        ELSE (CHOOSE x \in earlier :
                Cardinality({y \in earlier : Before(x, y)}) = n - 1)[col]

\* SELECT * FROM v_credit_metrics_trends
v_credit_metrics_trends(facts, dates, geos, products) ==
    LET J == FactJoin(facts, dates, geos, products)
        G == { TrendsGroup(k, {j[1] : j \in {x \in J : QuarterlyGroupKey(x) = k}}) :
                 k \in {QuarterlyGroupKey(j) : j \in J} }
    IN  { [year |-> g.year, quarter |-> g.quarter, quarter_key |-> g.quarter_key,
           country |-> g.country, product_type |-> g.product_type,
           originations_cnt |-> g.originations_cnt,
           origination_amt |-> g.origination_amt,
           balance_amt |-> g.balance_amt,
           default_rate |-> g.default_rate,
           prime_rate |-> g.prime_rate,
           lending_rate |-> g.lending_rate,
           originations_cnt_prev_year |-> TrendsLag(G, g, "originations_cnt", 4),
           origination_amt_prev_year |-> TrendsLag(G, g, "origination_amt", 4)] : g \in G }

----------------------------------------------------------------------------
(* ValidateOLAPDataQuality *)

\* quarter_key INT NOT NULL: no stored row has it NULL
QuarterKeyIsNull(f) == FALSE

NegativeAmount(f) == LT(f.origination_amt, 0) \/ LT(f.balance_amt, 0)

InvalidDefaultRate(f) == LT(f.default_rate, 0) \/ GT(f.default_rate, 10000)

CountPlusOne(S) == Cardinality(S) + 1

SQL_COUNT(S) == Cardinality(S)

\* the two result sets of the procedure on the day curdate
QualityReport(facts, dates, curdate) ==
    LET ends   == { [quarter_end |-> d.quarter_end] :
                      d \in {x \in dates : \E f \in facts : f.quarter_key = x.quarter_key} }
        latest == SQL_MAX(ends, "quarter_end")
    IN  [null_quarter_key      |-> SQL_COUNT({f \in facts : QuarterKeyIsNull(f)}),
         negative_amounts      |-> SQL_COUNT({f \in facts : NegativeAmount(f)}),
         invalid_default_rates |-> SQL_COUNT({f \in facts : InvalidDefaultRate(f)}),
         Latest_Data_Date      |-> latest,
         Days_Old              |-> DATEDIFF(V(curdate), latest)]

----------------------------------------------------------------------------
(* The readers against a loaded warehouse *)

Answer(reader, rows) ==
    /\ resultset[reader] = NULL
    /\ resultset' = [resultset EXCEPT ![reader] = V(rows)]
    /\ UNCHANGED <<whVars, procVars, healVars>>

QueryOlapView ==
    \E rows \in v_olap_credit_metrics(fact_credit_metrics_qtr, dim_date_qtr,
                                      dim_geo, dim_product) :
        Answer("v_olap_credit_metrics", rows)

QueryPowerBIView(curdate) ==
    \E rows \in v_powerbi_optimized(fact_credit_metrics_qtr, dim_date_qtr,
                                    dim_geo, dim_product, curdate) :
        Answer("v_powerbi_optimized", rows)

QueryCreditMetrics ==
    Answer("CreditMetrics", CreditMetrics(fact_credit_metrics_qtr))

QueryCreditMetricsTotals ==
    Answer("CreditMetricsTotals", CreditMetricsTotals(fact_credit_metrics_qtr))

QueryTrendsView ==
    Answer("v_credit_metrics_trends",
           v_credit_metrics_trends(fact_credit_metrics_qtr, dim_date_qtr, dim_geo, dim_product))

QueryCreditMetricsCalculated ==
    Answer("CreditMetricsCalculated", CreditMetricsCalculated(fact_credit_metrics_qtr))

ValidateOLAPDataQuality(curdate) ==
    Answer("ValidateOLAPDataQuality",
           QualityReport(fact_credit_metrics_qtr, dim_date_qtr, curdate))

\* the i-th quarter a partition holds, counted from 2023 Q1; with a gap the
\* third calendar quarter is missing
PartitionQuarter(i, gap) ==
    LET j == IF gap /\ i >= 3 THEN i + 1 ELSE i
    IN  (2023 + (j - 1) \div 4) * 10 + ((j - 1) % 4) + 1

ReadQuarterKeys == {PartitionQuarter(i, gap) : i \in 1..MaxPartitionRows, gap \in BOOLEAN}

\* the day the readers run on: 2025-06-30
CurrentDates == {DaysFromCivil(2025, 6, 30)}

\* one fact row for every default_rate
RateLoads ==
    { {FactRow(PartitionQuarter(1, FALSE), 1, 1,
               [originations_cnt |-> V(7), origination_amt |-> V(900),
                balance_amt |-> V(300), default_rate |-> r,
                prime_rate |-> V(850), lending_rate |-> V(325)])} :
        r \in {NULL} \cup {V(i) : i \in -1..MaxRate} }

\* one fact row for every kind of count and amount the columns admit
AmountLoads ==
    { {FactRow(PartitionQuarter(1, FALSE), 1, 1, m)} :
        m \in [originations_cnt : {NULL, V(0), V(7)},
               origination_amt  : {NULL, V(0), V(-100), V(900)},
               balance_amt      : {NULL, V(-100), V(300)},
               default_rate     : {V(300)},
               prime_rate       : {V(850)},
               lending_rate     : {V(325)}] }

\* one fact row for every kind of rate the DECIMAL(9,4) columns admit
RangeLoads ==
    { {FactRow(PartitionQuarter(1, FALSE), 1, 1, m)} :
        m \in [originations_cnt : {V(7)},
               origination_amt  : {V(900)},
               balance_amt      : {V(300)},
               default_rate     : {NULL, V(300), V(10001)},
               prime_rate       : {NULL, V(850), V(10001)},
               lending_rate     : {NULL, V(325), V(-1)}] }

\* one quarter's rows of the two geographies, for every pair of risk levels
\* and counts
RiskLoads ==
    { {FactRow(PartitionQuarter(1, FALSE), 1, 1,
               [originations_cnt |-> c1, origination_amt |-> V(900),
                balance_amt |-> V(300), default_rate |-> r1,
                prime_rate |-> V(850), lending_rate |-> V(325)]),
       FactRow(PartitionQuarter(1, FALSE), 2, 1,
               [originations_cnt |-> c2, origination_amt |-> V(900),
                balance_amt |-> V(300), default_rate |-> r2,
                prime_rate |-> V(850), lending_rate |-> V(325)])} :
        c1 \in {NULL, V(7)}, c2 \in {NULL, V(7)},
        r1 \in {V(100), V(200), V(300), V(500), V(600)},
        r2 \in {V(100), V(200), V(300), V(500), V(600)} }

WindowAmounts == { <<NULL, V(0)>>, <<V(0), NULL>>, <<V(100), V(200)>>, <<V(250), V(-100)>> }

WindowMeasures(a) ==
    [originations_cnt |-> V(7), origination_amt |-> a[1], balance_amt |-> a[2],
     default_rate |-> V(300), prime_rate |-> V(850), lending_rate |-> V(325)]

\* a partition of k quarters whose first and last rows vary, with or without
\* a row of a second partition in its first quarter
PartitionLoads ==
    { {FactRow(PartitionQuarter(i, gap), 1, 1,
               WindowMeasures(IF i = 1 THEN first ELSE IF i = k THEN last
                              ELSE <<V(100), V(200)>>)) : i \in 1..k}
      \cup (IF other
            THEN {FactRow(PartitionQuarter(i, gap), 2, 1,
                          WindowMeasures(<<V(250), V(-100)>>)) : i \in 1..1}
            ELSE {}) :
        k \in 1..MaxPartitionRows, gap \in BOOLEAN, other \in BOOLEAN,
        first \in WindowAmounts, last \in WindowAmounts }

\* the warehouse right after the DDL, or with its dimensions loaded and one
\* of the fact loads
InitRead ==
    /\ \/ /\ dim_date_qtr = {}
          /\ dim_geo = {}
          /\ dim_product = {}
          /\ auto_increment = [geo |-> 1, product |-> 1]
          /\ fact_credit_metrics_qtr = {}
       \/ /\ dim_date_qtr = {DateRow(qk) : qk \in ReadQuarterKeys}
          /\ dim_geo = {GeoRow(1, <<V("US"), NULL, NULL>>),
                        GeoRow(2, <<V("US"), V("CA"), V("LA")>>)}
          /\ dim_product = {ProductRow(1, <<V("CC"), V("CreditCard"), V("Retail")>>)}
          /\ auto_increment = [geo |-> 3, product |-> 2]
          /\ fact_credit_metrics_qtr \in
                {{}} \cup RateLoads \cup AmountLoads \cup RangeLoads \cup PartitionLoads
    /\ agg_credit_metrics_yearly = {}
    /\ agg_credit_metrics_quarterly = {}
    /\ sqlstate = Stmt("upsert_fact", "inserted")
    /\ SessionsIdle
    /\ ReadersIdle
    /\ HealerIdle

NextRead ==
    \/ QueryOlapView
    \/ \E curdate \in CurrentDates : QueryPowerBIView(curdate)
    \/ QueryTrendsView
    \/ QueryCreditMetrics
    \/ QueryCreditMetricsCalculated
    \/ \E curdate \in CurrentDates : ValidateOLAPDataQuality(curdate)

SpecRead == InitRead /\ [][NextRead]_vars

\* the CreditMetrics cube queried by its keys and for its totals, over the
\* loads that vary the counts and default rates
InitRisk ==
    /\ dim_date_qtr = {DateRow(qk) : qk \in ReadQuarterKeys}
    /\ dim_geo = {GeoRow(1, <<V("US"), NULL, NULL>>),
                  GeoRow(2, <<V("US"), V("CA"), V("LA")>>)}
    /\ dim_product = {ProductRow(1, <<V("CC"), V("CreditCard"), V("Retail")>>)}
    /\ auto_increment = [geo |-> 3, product |-> 2]
    /\ fact_credit_metrics_qtr \in {{}} \cup RateLoads \cup AmountLoads \cup RiskLoads
    /\ agg_credit_metrics_yearly = {}
    /\ agg_credit_metrics_quarterly = {}
    /\ sqlstate = Stmt("upsert_fact", "inserted")
    /\ SessionsIdle
    /\ ReadersIdle
    /\ HealerIdle

NextRisk ==
    \/ QueryCreditMetrics
    \/ QueryCreditMetricsTotals

SpecRisk == InitRisk /\ [][NextRisk]_vars

----------------------------------------------------------------------------
(* The derived measures: claims *)

Answered(reader) == resultset[reader] # NULL

RowsOf(reader) == Val(resultset[reader])

\* the fact row a cube row was computed from
FactOf(r) ==
    CHOOSE f \in fact_credit_metrics_qtr :
        FactKey(f) = <<r.quarterKey, r.geoKey, r.productKey>>

\* the rows of f's (geo_key, product_key) partition that have exactly three
\* rows of the partition between them and f
FourBefore(f) ==
    LET P == {x \in fact_credit_metrics_qtr :
                x.geo_key = f.geo_key /\ x.product_key = f.product_key}
    IN  {x \in P : /\ x.quarter_key < f.quarter_key
                   /\ Cardinality({y \in P : /\ x.quarter_key < y.quarter_key
                                             /\ y.quarter_key < f.quarter_key}) = 3}

NoPositiveBase(f, col) ==
    \A x \in FourBefore(f) : IsNull(x[col]) \/ Val(x[col]) <= 0

\* C12: originationGrowthRate and balanceGrowthRate of a fact row are exactly
\* 0 when its partition has no row four positions earlier or that row's
\* value is NULL or <= 0
GrowthIsZeroWithoutBase ==
    Answered("CreditMetricsCalculated") =>
        \A r \in RowsOf("CreditMetricsCalculated") :
            /\ NoPositiveBase(FactOf(r), "origination_amt") => r.originationGrowthRate = V(0)
            /\ NoPositiveBase(FactOf(r), "balance_amt") => r.balanceGrowthRate = V(0)

\* a row with a NULL origination base and a zero balance base four
\* positions earlier has been answered with growth 0
GrowthOverNullBaseAnswered ==
    /\ Answered("CreditMetricsCalculated")
    /\ \E r \in RowsOf("CreditMetricsCalculated") :
          /\ \E x \in FourBefore(FactOf(r)) :
                IsNull(x.origination_amt) /\ LE(x.balance_amt, 0)
          /\ r.originationGrowthRate = V(0)
          /\ r.balanceGrowthRate = V(0)

\* the fact row a view row was computed from
FactOfView(r) ==
    CHOOSE f \in fact_credit_metrics_qtr :
        FactKey(f) = <<r.quarter_key, r.geo_key, r.product_key>>

\* the 3-level risk bucket of a default_rate
RiskBucket(rate) ==
    IF IsNull(rate) THEN "Unknown"
    ELSE IF Val(rate) > 500 THEN "High Risk"
    ELSE IF Val(rate) > 200 THEN "Medium Risk"
    ELSE IF Val(rate) > 0 THEN "Low Risk"
    ELSE "Unknown"

\* C13: risk_category of v_olap_credit_metrics and of v_powerbi_optimized and
\* riskCategory of CreditMetrics each give High Risk above 0.05, Medium Risk
\* in (0.02, 0.05], Low Risk in (0, 0.02] and Unknown for NULL and for
\* rates <= 0
RiskBucketsAsSpecified ==
    /\ Answered("v_olap_credit_metrics") =>
          \A r \in RowsOf("v_olap_credit_metrics") :
              r.risk_category = RiskBucket(FactOfView(r).default_rate)
    /\ Answered("v_powerbi_optimized") =>
          \A r \in RowsOf("v_powerbi_optimized") :
              r.risk_category = RiskBucket(FactOfView(r).default_rate)
    /\ Answered("CreditMetrics") =>
          \A r \in RowsOf("CreditMetrics") :
              r.riskCategory = RiskBucket(FactOf(r).default_rate)

\* the 3-level bucket a detailed category subdivides
CoarseCategory(detailed) ==
    CASE detailed \in {"Critical Risk", "High Risk"}          -> "High Risk"
      [] detailed \in {"Medium-High Risk", "Medium Risk"}     -> "Medium Risk"
      [] detailed \in {"Low-Medium Risk", "Low Risk"}         -> "Low Risk"
      [] OTHER                                                -> "Unknown"

\* C14: for every default_rate, riskCategoryDetailed lies in the 3-level
\* bucket that risk_category of v_olap_credit_metrics gives the same row
DetailedAgreesWithBucket ==
    (Answered("CreditMetricsCalculated") /\ Answered("v_olap_credit_metrics")) =>
        \A r \in RowsOf("CreditMetricsCalculated"), v \in RowsOf("v_olap_credit_metrics") :
            FactOf(r) = FactOfView(v) =>
                CoarseCategory(r.riskCategoryDetailed) = v.risk_category

\* the health score of a rate r (ten-thousandths), times 10000:
\* 100, 80 - (r - 0.02) * 1000, 50 - (r - 0.05) * 1000 or 0
ScoreTimes10000(r) ==
    IF r <= 200 THEN 100 * 10000
    ELSE IF r <= 500 THEN 80 * 10000 - (r - 200) * 1000
    ELSE IF r <= 1000 THEN 50 * 10000 - (r - 500) * 1000
    ELSE 0

\* C15: portfolioHealthScore of a row with default_rate r is 100 for
\* r <= 0.02, 80 - (r - 0.02) * 1000 for 0.02 < r <= 0.05,
\* 50 - (r - 0.05) * 1000 for 0.05 < r <= 0.10 and 0 above; 0.02 gives 100,
\* 0.035 gives 65 and 0.05 gives 50
HealthScoreAsSpecified ==
    Answered("CreditMetricsCalculated") =>
        \A r \in RowsOf("CreditMetricsCalculated") :
            LET rate == FactOf(r).default_rate IN
            ~IsNull(rate) =>
                /\ r.portfolioHealthScore * 1000 = ScoreTimes10000(Val(rate))
                /\ Val(rate) = 200 => r.portfolioHealthScore = 1000
                /\ Val(rate) = 350 => r.portfolioHealthScore = 650
                /\ Val(rate) = 500 => r.portfolioHealthScore = 500

\* the row with default_rate 0.035 has been answered with score 65
HealthScoreOfMidSegmentAnswered ==
    /\ Answered("CreditMetricsCalculated")
    /\ \E r \in RowsOf("CreditMetricsCalculated") :
          FactOf(r).default_rate = V(350) /\ r.portfolioHealthScore = 650

ZeroOrAbsent(x) == IsNull(x) \/ Val(x) = 0

\* C16: every ratio measure is 0, not NULL, on a row whose denominator is
\* zero or absent, in each of its definitions: the per-account average and
\* the balance ratio in both views and in CreditMetrics, market share,
\* performance-vs-average and the growth rates in CreditMetricsCalculated
DivisionGuardUniform ==
    /\ Answered("v_olap_credit_metrics") =>
          \A r \in RowsOf("v_olap_credit_metrics") :
              /\ ZeroOrAbsent(FactOfView(r).originations_cnt) =>
                     r.avg_origination_per_account = V(0)
              /\ ZeroOrAbsent(FactOfView(r).origination_amt) =>
                     r.balance_to_origination_ratio = V(0)
    /\ Answered("v_powerbi_optimized") =>
          \A r \in RowsOf("v_powerbi_optimized") :
              /\ ZeroOrAbsent(FactOfView(r).originations_cnt) =>
                     r.avg_origination_per_account = V(0)
              /\ ZeroOrAbsent(FactOfView(r).origination_amt) =>
                     r.balance_to_origination_ratio = V(0)
    /\ Answered("CreditMetrics") =>
          \A r \in RowsOf("CreditMetrics") :
              /\ ZeroOrAbsent(FactOf(r).originations_cnt) =>
                     r.averageOriginationPerAccount = V(0)
              /\ ZeroOrAbsent(FactOf(r).origination_amt) =>
                     r.balanceToOriginationRatio = V(0)
    /\ Answered("CreditMetricsCalculated") =>
          \A r \in RowsOf("CreditMetricsCalculated") :
              LET Q == {x \in fact_credit_metrics_qtr :
                          x.quarter_key = FactOf(r).quarter_key}
              IN  /\ ZeroOrAbsent(SQL_SUM(Q, "origination_amt")) =>
                         /\ r.marketShareByProduct = V(0)
                         /\ r.performanceVsAverage = V(<<0, 1>>)
                  /\ (\A x \in FourBefore(FactOf(r)) : ZeroOrAbsent(x.origination_amt)) =>
                         r.originationGrowthRate = V(0)
                  /\ (\A x \in FourBefore(FactOf(r)) : ZeroOrAbsent(x.balance_amt)) =>
                         r.balanceGrowthRate = V(0)

\* C17: ValidateOLAPDataQuality leaves every dimension, fact and rollup row
\* unchanged, can run and return its report in every warehouse state, and on
\* an empty fact table each of its issue counts is 0
ValidatorReadsOnly ==
    /\ [][resultset'["ValidateOLAPDataQuality"] # resultset["ValidateOLAPDataQuality"]
            => Tables' = Tables]_vars
    /\ [](~Answered("ValidateOLAPDataQuality") =>
            \A curdate \in CurrentDates : ENABLED ValidateOLAPDataQuality(curdate))
    /\ [](Answered("ValidateOLAPDataQuality") =>
            LET report == RowsOf("ValidateOLAPDataQuality")
            IN  /\ {report.null_quarter_key, report.negative_amounts,
                    report.invalid_default_rates} \subseteq Nat
                /\ fact_credit_metrics_qtr = {} =>
                      /\ report.null_quarter_key = 0
                      /\ report.negative_amounts = 0
                      /\ report.invalid_default_rates = 0)

\* the procedure has answered on a warehouse without any row: three zero
\* counts and no latest date
ValidatorAnsweredOnEmptyWarehouse ==
    /\ Answered("ValidateOLAPDataQuality")
    /\ dim_date_qtr = {} /\ dim_geo = {} /\ dim_product = {}
    /\ fact_credit_metrics_qtr = {}
    /\ RowsOf("ValidateOLAPDataQuality") =
          [null_quarter_key |-> 0, negative_amounts |-> 0, invalid_default_rates |-> 0,
           Latest_Data_Date |-> NULL, Days_Old |-> NULL]

OutsideUnitInterval(rate) == LT(rate, 0) \/ GT(rate, 10000)

\* C18: the negative-amount count counts every fact row with a negative
\* origination_amt or balance_amt, and the out-of-range-rate count counts
\* every fact row whose default_rate, prime_rate or lending_rate lies
\* outside [0,1]
RangeCountsCoverEveryViolation ==
    Answered("ValidateOLAPDataQuality") =>
        LET report == RowsOf("ValidateOLAPDataQuality")
        IN  /\ report.negative_amounts =
                   Cardinality({f \in fact_credit_metrics_qtr :
                                   LT(f.origination_amt, 0) \/ LT(f.balance_amt, 0)})
            /\ report.invalid_default_rates =
                   Cardinality({f \in fact_credit_metrics_qtr :
                                   \/ OutsideUnitInterval(f.default_rate)
                                   \/ OutsideUnitInterval(f.prime_rate)
                                   \/ OutsideUnitInterval(f.lending_rate)})

DisplayMeasures == {"originations_cnt", "origination_amt", "balance_amt",
                    "default_rate", "prime_rate", "lending_rate"}

\* C19: v_powerbi_optimized returns exactly one row per fact row, and in each
\* row the six display measures are non-NULL: the fact value, or 0 where the
\* fact value is NULL
PowerBIOneRowPerFactRow ==
    Answered("v_powerbi_optimized") =>
        LET rows == RowsOf("v_powerbi_optimized")
            ViewKey(r) == <<r.quarter_key, r.geo_key, r.product_key>>
        IN  /\ \A f \in fact_credit_metrics_qtr :
                  Cardinality({r \in rows : ViewKey(r) = FactKey(f)}) = 1
            /\ \A r \in rows :
                  /\ \E f \in fact_credit_metrics_qtr : FactKey(f) = ViewKey(r)
                  /\ \A m \in DisplayMeasures :
                        /\ ~IsNull(r[m])
                        /\ r[m] = IF IsNull(FactOfView(r)[m]) THEN V(0)
                                  ELSE FactOfView(r)[m]

\* the view has answered over several fact rows, one of them without an
\* origination amount, which its row shows as 0
PowerBIRowOfNullMeasureAnswered ==
    /\ Answered("v_powerbi_optimized")
    /\ Cardinality(fact_credit_metrics_qtr) >= 2
    /\ \E r \in RowsOf("v_powerbi_optimized") :
          IsNull(FactOfView(r).origination_amt) /\ r.origination_amt = V(0)

\* C20: for one snapshot the cube and the views give the same derived
\* values for every fact row: riskCategory of CreditMetrics equals
\* risk_category of v_olap_credit_metrics and of v_powerbi_optimized, and the
\* two views agree on avg_origination_per_account and on
\* balance_to_origination_ratio
ReadPathEqualsWritePath ==
    /\ Answered("CreditMetrics") =>
          \A c \in RowsOf("CreditMetrics") :
              /\ Answered("v_olap_credit_metrics") =>
                    \A r \in RowsOf("v_olap_credit_metrics") :
                        FactOfView(r) = FactOf(c) => c.riskCategory = r.risk_category
              /\ Answered("v_powerbi_optimized") =>
                    \A r \in RowsOf("v_powerbi_optimized") :
                        FactOfView(r) = FactOf(c) => c.riskCategory = r.risk_category
    /\ (Answered("v_olap_credit_metrics") /\ Answered("v_powerbi_optimized")) =>
          \A o \in RowsOf("v_olap_credit_metrics"), b \in RowsOf("v_powerbi_optimized") :
              FactOfView(o) = FactOfView(b) =>
                  /\ o.avg_origination_per_account = b.avg_origination_per_account
                  /\ o.balance_to_origination_ratio = b.balance_to_origination_ratio

\* rate, in millionths of a percent, is (cur - base) / base as a percentage:
\* the quotient to six decimals, times 100
IsGrowthOver(rate, cur, base) ==
    /\ ~IsNull(rate)
    /\ Val(rate) % 100 = 0
    /\ 2 * Abs((Val(rate) \div 100) * base - (cur - base) * 1000000) <= base

\* the facts a trends row is grouped from
FactsOfTrend(t) ==
    { f \in fact_credit_metrics_qtr :
        /\ f.quarter_key = t.quarter_key
        /\ \E g \in dim_geo, p \in dim_product :
              /\ g.geo_key = f.geo_key /\ g.country = t.country
              /\ p.product_key = f.product_key /\ p.product_type = t.product_type }

\* C25: where the row four positions earlier in the (geo_key, product_key)
\* partition ordered by quarter_key exists with a positive value, the growth
\* rate is (M_t - M_{t-4}) / M_{t-4}, as a percentage, against that row,
\* whatever the calendar gap; and the year-over-year column of
\* v_credit_metrics_trends is taken over the same partition and order: for
\* a row grouped from one fact it is that fact's positional base
OneWindowingPrimitive ==
    /\ Answered("CreditMetricsCalculated") =>
          \A r \in RowsOf("CreditMetricsCalculated") :
              \A x \in FourBefore(FactOf(r)) :
                  /\ (GT(x.origination_amt, 0) /\ ~IsNull(FactOf(r).origination_amt)) =>
                        IsGrowthOver(r.originationGrowthRate,
                                     Val(FactOf(r).origination_amt), Val(x.origination_amt))
                  /\ (GT(x.balance_amt, 0) /\ ~IsNull(FactOf(r).balance_amt)) =>
                        IsGrowthOver(r.balanceGrowthRate,
                                     Val(FactOf(r).balance_amt), Val(x.balance_amt))
    /\ Answered("v_credit_metrics_trends") =>
          \A t \in RowsOf("v_credit_metrics_trends") :
              \A f \in FactsOfTrend(t) :
                  FactsOfTrend(t) = {f} =>
                      /\ t.origination_amt_prev_year =
                             LAG(fact_credit_metrics_qtr, f, "origination_amt", 4)
                      /\ t.originations_cnt_prev_year =
                             LAG(fact_credit_metrics_qtr, f, "originations_cnt", 4)

\* C26: a second evaluation of v_olap_credit_metrics or v_powerbi_optimized
\* over the same fact and dimension rows gives every row the same value in
\* every column, time_sequence included, also when several fact rows share
\* one (year, quarter): the answer given is the only answer the view has
ViewsAreDeterministic ==
    /\ Answered("v_olap_credit_metrics") =>
          \A again \in v_olap_credit_metrics(fact_credit_metrics_qtr, dim_date_qtr,
                                             dim_geo, dim_product) :
              again = RowsOf("v_olap_credit_metrics")
    /\ Answered("v_powerbi_optimized") =>
          \A curdate \in CurrentDates :
              \A again \in v_powerbi_optimized(fact_credit_metrics_qtr, dim_date_qtr,
                                               dim_geo, dim_product, curdate) :
                  again = RowsOf("v_powerbi_optimized")

Breakpoints == {200, 500, 1000}

\* C27: at each breakpoint b in {0.02, 0.05, 0.10} the score of a row with
\* default_rate b and the score the same row has with the next representable
\* rate b + 0.0001 differ by no more than one slope step, 0.1 point
HealthScoreSegmentsMeet ==
    Answered("CreditMetricsCalculated") =>
        \A r \in RowsOf("CreditMetricsCalculated") :
            LET f == FactOf(r) IN
            (~IsNull(f.default_rate) /\ Val(f.default_rate) \in Breakpoints) =>
                Abs(r.portfolioHealthScore
                    - portfolioHealthScore([f EXCEPT !.default_rate =
                                                V(Val(f.default_rate) + 1)])) <= 1

\* C28: originationGrowthRate and balanceGrowthRate are non-NULL for every
\* fact row, also for a row whose own origination_amt or balance_amt is NULL
\* while the row four positions earlier has a positive value
GrowthIsNeverNull ==
    Answered("CreditMetricsCalculated") =>
        \A r \in RowsOf("CreditMetricsCalculated") :
            /\ ~IsNull(r.originationGrowthRate)
            /\ ~IsNull(r.balanceGrowthRate)

SQL_PLUS(x, y) == IF IsNull(x) \/ IsNull(y) THEN NULL ELSE V(Val(x) + Val(y))

\* the three risk-account terms of a cube row, by the category each counts
RiskAccountsOf(r) ==
    [c \in {"High Risk", "Medium Risk", "Low Risk"} |->
        IF c = "High Risk" THEN r.highRiskAccounts
        ELSE IF c = "Medium Risk" THEN r.mediumRiskAccounts
        ELSE r.lowRiskAccounts]

\* C30: over fact rows that all have a default_rate, highRiskAccounts +
\* mediumRiskAccounts + lowRiskAccounts equals totalOriginations, and each
\* row's originations_cnt is the term of the measure that matches the row's
\* riskCategory while its terms of the other two measures are 0
RiskAccountsPartitionOriginations ==
    (\A f \in fact_credit_metrics_qtr : ~IsNull(f.default_rate)) =>
        /\ Answered("CreditMetricsTotals") =>
              \A t \in RowsOf("CreditMetricsTotals") :
                  SQL_PLUS(SQL_PLUS(t.highRiskAccounts, t.mediumRiskAccounts),
                           t.lowRiskAccounts) = t.totalOriginations
        /\ Answered("CreditMetrics") =>
              \A r \in RowsOf("CreditMetrics") :
                  /\ r.riskCategory \in DOMAIN RiskAccountsOf(r)
                  /\ \A c \in DOMAIN RiskAccountsOf(r) :
                        RiskAccountsOf(r)[c] =
                            IF c = r.riskCategory THEN r.totalOriginations ELSE V(0)

====
